---- MODULE Spec2Model ----
(***************************************************************************)
(* Model of the asset loader of Purlovia (src/ue/loader.py): asset-name    *)
(* normalisation and path conversion, the cache managers, and the          *)
(* load_asset / _load_asset pipeline.                                      *)
(*                                                                         *)
(* Python strings are sequences of one-character strings, so that strip,   *)
(* split, index, lower and startswith are computed as the code computes    *)
(* them.  A Python dict is a sequence of entries in insertion order.       *)
(***************************************************************************)
EXTENDS Integers, Sequences, FiniteSets, TLC

VARIABLES
    cache,        \* UsageBasedCacheManager.cache: dict in insertion order
    max_count,    \* UsageBasedCacheManager.max_count
    keep_count,   \* UsageBasedCacheManager.keep_count
    mods,         \* IniModResolver: the [ids] section, a sequence of <<id, name>>
    pc,           \* position inside load_asset / _load_asset ("idle" between calls)
    cur,          \* the call in flight: its arguments, the asset being built, the pending exit
    mem,          \* the raw buffer of the call in flight: "none", "held" or "released"
    releases,     \* number of mem.release() calls made by the call in flight
    touched,      \* history: cached names, least recently touched (lookup hit or add) first
    last,         \* history: the last completed operation, its result and the cache before it
    nm,           \* the name pipeline: an input name, a variant of it, and what was computed
    sel,          \* default-export selection: an export table, a leaf name, and what was selected
    fs,           \* the asset directory, path_match_cache, and the last path query
    geo,          \* the instanced-geometry blob parser: the stream, its cursor, the fields set
    scan,         \* find_assetnames and the species scan: candidates, filters, what was yielded
    px,           \* proxy types registered, proxy instances, and the last proxy call
    dc,           \* DictCacheManager.cache, driven alongside the usage-based cache
    cf,           \* cache_data: the cache file on disk, the call and its generator
    cls,          \* load_class: the call in flight and its result
    ex            \* Exporter.perform: the mods still to export, the mod in hand, its prefix

vars == <<cache, max_count, keep_count, mods, pc, cur, mem, releases, touched, last, nm, sel, fs, geo, scan, px, dc, cf, cls, ex>>

(***************************************************************************)
(* Bounds                                                                  *)
(***************************************************************************)
MaxCount == 3     \* largest max_count tried
MaxVary == 2      \* number of elementary variations applied to an input name
MaxExports == 3   \* longest export table tried
MaxLods == 1      \* largest LOD count of a geometry blob
MaxInstances == 2 \* largest instance count of a geometry blob
MaxScan == 2      \* number of calls of the species scan followed
MaxProxies == 2   \* number of proxy instances created
MaxData == 2      \* number of values the generator of cached data may return
MaxLoads == 2     \* number of assets loaded while one mod is exported

(***************************************************************************)
(* Python str operations                                                   *)
(***************************************************************************)
UpperAlpha == <<"A","B","C","D","E","F","G","H","I","J","K","L","M","N","O","P","Q","R","S","T","U","V","W","X","Y","Z">>

LowerAlpha == <<"a","b","c","d","e","f","g","h","i","j","k","l","m","n","o","p","q","r","s","t","u","v","w","x","y","z">>

Digits == {"0","1","2","3","4","5","6","7","8","9"}

Whitespace == {" ", "\n", "\t"}

Slash == "/"

Backslash == "\\"

Dot == "."

IsUpper(c) == \E i \in 1..26 : UpperAlpha[i] = c

IsLower(c) == \E i \in 1..26 : LowerAlpha[i] = c

LowerChar(c) == IF IsUpper(c) THEN LowerAlpha[CHOOSE i \in 1..26 : UpperAlpha[i] = c] ELSE c

UpperChar(c) == IF IsLower(c) THEN UpperAlpha[CHOOSE i \in 1..26 : LowerAlpha[i] = c] ELSE c

\* str.lower()
Lower(s) == [i \in 1..Len(s) |-> LowerChar(s[i])]

\* str.isnumeric(): non-empty and every character numeric
IsNumeric(s) == Len(s) > 0 /\ \A i \in 1..Len(s) : s[i] \in Digits

\* c in s
Contains(s, c) == \E i \in 1..Len(s) : s[i] = c

\* s.index(c), 1-based; only used when c is in s
Index(s, c) == CHOOSE i \in 1..Len(s) : s[i] = c /\ \A j \in 1..(i-1) : s[j] # c

\* s.startswith(p)
StartsWith(s, p) == Len(p) <= Len(s) /\ SubSeq(s, 1, Len(p)) = p

\* s.strip(chars): drop the leading and the trailing run of characters in chars
Strip(s, chars) ==
    LET keep == {i \in 1..Len(s) : s[i] \notin chars}
    IN  IF keep = {} THEN <<>>
        ELSE LET lo == CHOOSE i \in keep : \A j \in keep : i <= j
                 hi == CHOOSE i \in keep : \A j \in keep : i >= j
             IN  SubSeq(s, lo, hi)

\* s.replace(a, b) for single characters
Replace(s, a, b) == [i \in 1..Len(s) |-> IF s[i] = a THEN b ELSE s[i]]

\* s.split(sep) for a single-character sep: '' gives [''], 'a//b' gives ['a', '', 'b']
RECURSIVE Split(_, _)
Split(s, sep) ==
    IF Contains(s, sep)
    THEN LET i == Index(s, sep)
         IN  <<SubSeq(s, 1, i - 1)>> \o Split(SubSeq(s, i + 1, Len(s)), sep)
    ELSE <<s>>

\* sep.join(parts)
RECURSIVE Join(_, _)
Join(parts, sep) ==
    IF Len(parts) = 0 THEN <<>>
    ELSE IF Len(parts) = 1 THEN parts[1]
    ELSE parts[1] \o <<sep>> \o Join(Tail(parts), sep)

\* Words used by the code and by the names tried
wGame == <<"G","a","m","e">>

wgame == <<"g","a","m","e">>

wContent == <<"C","o","n","t","e","n","t">>

wcontent == <<"c","o","n","t","e","n","t">>

wMods == <<"M","o","d","s">>

wmods == <<"m","o","d","s">>

wAlpha == <<"A","l","p","h","a">>

walpha == <<"a","l","p","h","a">>

wbeta == <<"b","e","t","a">>

wFoo == <<"F","o","o">>

wBar == <<"B","a","r">>

wfoo == Lower(wFoo)

extUasset == <<".","u","a","s","s","e","t">>

extUmap == <<".","u","m","a","p">>

(***************************************************************************)
(* Optional values (Python None)                                           *)
(***************************************************************************)
None == [none |-> TRUE, val |-> <<>>]

Some(v) == [none |-> FALSE, val |-> v]

\* "not s" for an Optional[str]: None and '' are both falsy
FalsyStr(o) == o.none \/ o.val = <<>>

\* The result of an operation that may raise: err is "" or the exception's name
Ok(v) == [err |-> "", val |-> v]

Raise(e) == [err |-> e, val |-> <<>>]

(***************************************************************************)
(* Exceptions                                                              *)
(***************************************************************************)
\* class X(Base): the base class of each exception raised by the loader
ExceptionBase ==
    [e \in {"AssetLoadException", "ModNotFound", "AssetNotFound", "ExportNotFound", "AssetParseError"} |->
        IF e = "AssetLoadException" THEN "Exception" ELSE "AssetLoadException"]

\* isinstance(e, base), for the exception named e
RECURSIVE IsKindOf(_, _)
IsKindOf(e, base) ==
    \/ e = base
    \/ e \in DOMAIN ExceptionBase /\ IsKindOf(ExceptionBase[e], base)

(***************************************************************************)
(* IniModResolver                                                          *)
(***************************************************************************)
\* mods_id_to_names.get(modid, None)
\* (alternative defined first: an unknown id stands for itself)
get_name_from_id_or_id(m, modid) ==
    IF \E i \in 1..Len(m) : m[i][1] = modid
    THEN Some(m[CHOOSE i \in 1..Len(m) : m[i][1] = modid][2])
    ELSE Some(modid)

get_name_from_id(m, modid) ==
    IF \E i \in 1..Len(m) : m[i][1] = modid
    THEN Some(m[CHOOSE i \in 1..Len(m) : m[i][1] = modid][2])
    ELSE None

\* mods_names_to_ids.get(name.lower(), None); the dict is keyed by name.lower(),
\* so of two ids whose names agree in lower case the later one is kept
\* (alternative defined first: the name looked up as given, not lower-cased)
get_id_from_name_as_given(m, name) ==
    LET hits == {i \in 1..Len(m) : Lower(m[i][2]) = name}
    IN  IF hits = {} THEN None
        ELSE Some(m[CHOOSE i \in hits : \A j \in hits : i >= j][1])

get_id_from_name(m, name) ==
    LET hits == {i \in 1..Len(m) : Lower(m[i][2]) = Lower(name)}
    IN  IF hits = {} THEN None
        ELSE Some(m[CHOOSE i \in hits : \A j \in hits : i >= j][1])

(***************************************************************************)
(* AssetLoader.clean_asset_name                                            *)
(***************************************************************************)
\* Remove class name, if present: name[:name.index('.')]
StripClass(name) == IF Contains(name, Dot) THEN SubSeq(name, 1, Index(name, Dot) - 1) ELSE name

\* name.strip().strip('/').strip('\\').replace('\\', '/')
CleanSeparators(name) == Replace(Strip(Strip(Strip(name, Whitespace), {Slash}), {Backslash}), Backslash, Slash)

\* len(parts) > 2 and parts[1].lower() == 'mods' and parts[2].isnumeric()
HasModId(parts) == Len(parts) > 2 /\ Lower(parts[2]) = wmods /\ IsNumeric(parts[3])

\* Change Content back to name, for cache consistency
ContentToGame(parts) == IF Len(parts) > 0 /\ Lower(parts[1]) = wcontent THEN [parts EXCEPT ![1] = wGame] ELSE parts

clean_asset_name(name, m) ==
    LET parts == Split(CleanSeparators(StripClass(name)), Slash)
    IN  IF HasModId(parts)
        THEN LET mod_name == get_name_from_id(m, parts[3])
             IN  IF FalsyStr(mod_name) THEN Raise("ModNotFound")
                 ELSE Ok(<<Slash>> \o Join(ContentToGame([parts EXCEPT ![3] = mod_name.val]), Slash))
        ELSE Ok(<<Slash>> \o Join(ContentToGame(parts), Slash))

(***************************************************************************)
(* AssetLoader.convert_asset_name_to_path                                  *)
(***************************************************************************)
\* AssetLoader.__init__: rewrites = dict() by default
rewrites_to_path == <<>>

\* for prefix_from, prefix_to in rewrites: first matching prefix is rewritten
RECURSIVE ApplyRewrites(_, _)
ApplyRewrites(name, rw) ==
    IF Len(rw) = 0 THEN name
    ELSE IF StartsWith(name, rw[1][1]) THEN rw[1][2] \o SubSeq(name, Len(rw[1][1]) + 1, Len(name))
    ELSE ApplyRewrites(name, Tail(rw))

\* len(parts) > 2 and parts[1].lower() == 'mods' and not parts[2].isnumeric()
HasModName(parts) == Len(parts) > 2 /\ Lower(parts[2]) = wmods /\ ~IsNumeric(parts[3])

\* Game is replaced with Content
GameToContent(parts) == IF Len(parts) > 0 /\ Lower(parts[1]) = wgame THEN [parts EXCEPT ![1] = wContent] ELSE parts

\* if not partial: parts[-1] += ext
AddExt(parts, partial, ext) == IF partial THEN parts ELSE [parts EXCEPT ![Len(parts)] = @ \o ext]

\* Path(self.asset_path, *parts), relative to asset_path: pathlib drops empty segments
PathParts(parts) == SelectSeq(parts, LAMBDA p : p # <<>>)

\* The path computed before the existence checks (what check_exists=False returns),
\* as its segments below asset_path
convert_asset_name_to_path(name, partial, ext, m) ==
    LET cleaned == clean_asset_name(name, m)
    IN  IF cleaned.err # "" THEN cleaned
        ELSE LET parts == Split(Strip(ApplyRewrites(cleaned.val, rewrites_to_path), {Slash}), Slash)
             IN  IF HasModName(parts)
                 THEN LET modid == get_id_from_name(m, parts[3])
                      IN  IF FalsyStr(modid) THEN Raise("ModNotFound")
                          ELSE Ok(PathParts(AddExt(GameToContent([parts EXCEPT ![3] = modid.val]), partial, ext)))
                 ELSE Ok(PathParts(AddExt(GameToContent(parts), partial, ext)))

(***************************************************************************)
(* AssetLoader.get_mod_name and get_mod_id                                 *)
(***************************************************************************)
wAlly == <<"A","l","l","y">>

\* AssetLoader.__init__: alias_to_mods[alias] = mod_tag, for a loader made with
\* mod_aliases = {'Alpha': {'Ally'}}
alias_to_mods == << <<wAlly, wAlpha>> >>

\* self.alias_to_mods.get(mod, mod)
AliasToMod(mod) ==
    IF \E i \in 1..Len(alias_to_mods) : alias_to_mods[i][1] = mod
    THEN alias_to_mods[CHOOSE i \in 1..Len(alias_to_mods) : alias_to_mods[i][1] = mod][2]
    ELSE mod

\* len(parts) >= 3 and parts[0].lower() == 'game' and parts[1].lower() == 'mods'
IsModPath(parts) == Len(parts) >= 3 /\ Lower(parts[1]) = wgame /\ Lower(parts[2]) = wmods

\* The value returned (an Optional[str]) or the exception raised
get_mod_name(assetname, m) ==
    LET cleaned == clean_asset_name(assetname, m)
    IN  IF cleaned.err # "" THEN cleaned
        ELSE LET parts == Split(Strip(cleaned.val, {Slash}), Slash)
             IN  IF ~IsModPath(parts) THEN Ok(None)
                 ELSE IF parts[3] = <<>> THEN Ok(Some(parts[3]))
                 ELSE IF IsNumeric(parts[3]) THEN Ok(get_name_from_id(m, parts[3]))
                 ELSE Ok(Some(AliasToMod(parts[3])))

get_mod_id(assetname, m) ==
    LET cleaned == clean_asset_name(assetname, m)
    IN  IF cleaned.err # "" THEN cleaned
        ELSE LET parts == Split(Strip(cleaned.val, {Slash}), Slash)
             IN  IF ~IsModPath(parts) THEN Ok(None)
                 ELSE IF parts[3] # <<>> /\ ~IsNumeric(parts[3]) THEN Ok(get_id_from_name(m, AliasToMod(parts[3])))
                 ELSE Ok(Some(parts[3]))

(***************************************************************************)
(* Containers (UAsset) and the cache managers                              *)
(***************************************************************************)
\* A container (UAsset): parsed is how far its parse got ("new" after UAsset(stream),
\* then "deserialised", then "linked"), ctx the parsing context it was created under,
\* default_export an index into its export table (0 for None).  NoneAsset is None.
NoneAsset == [parsed |-> "", ctx |-> "", assetname |-> <<>>, default_export |-> 0]

NewAsset(ctx, assetname) == [parsed |-> "new", ctx |-> ctx, assetname |-> assetname, default_export |-> 0]

\* The truth value of "result" in "if result:" and "if not asset:": a UAsset object
\* is truthy, None is falsy
Truthy(asset) == asset # NoneAsset

Entry(name, asset) == [name |-> name, asset |-> asset]

\* key in dict
DictHas(c, name) == \E i \in 1..Len(c) : c[i].name = name

\* dict.get(name, None)
DictGet(c, name) == IF DictHas(c, name) THEN c[CHOOSE i \in 1..Len(c) : c[i].name = name].asset ELSE NoneAsset

\* the dict after dict.pop(name, None) / del dict[name]
DictPop(c, name) == SelectSeq(c, LAMBDA e : e.name # name)

\* the dict after dict[name] = asset for a name that is not a key: appended last
DictInsert(c, name, asset) == Append(c, Entry(name, asset))

\* list(dict): the keys in insertion order
DictKeys(c) == [i \in 1..Len(c) |-> c[i].name]

KeySet(c) == {c[i].name : i \in 1..Len(c)}

\* UsageBasedCacheManager.lookup: the value returned
\* (alternative defined first: nothing is ever found)
UsageBased_lookup_always_misses(c, name) == NoneAsset

UsageBased_lookup_result(c, name) == DictGet(c, name)

\* UsageBasedCacheManager.lookup: the cache afterwards (pop, then re-insert at the end
\* if the popped value is truthy); alternative with no re-ordering defined first
UsageBased_lookup_noreorder(c, name) == c

UsageBased_lookup(c, name) ==
    LET result == DictGet(c, name)
    IN  IF Truthy(result) THEN DictInsert(DictPop(c, name), name, result) ELSE DictPop(c, name)

\* UsageBasedCacheManager._purge: del the first "amount" keys, islice(self.cache, amount)
purge_newest(c, amount) == SubSeq(c, 1, Len(c) - (IF amount < Len(c) THEN amount ELSE Len(c)))

purge(c, amount) == SubSeq(c, (IF amount < Len(c) THEN amount ELSE Len(c)) + 1, Len(c))

\* UsageBasedCacheManager._maybe_purge: the branch "cache_count >= self.max_count"
purge_due(c, maxc) == Len(c) >= maxc

\* UsageBasedCacheManager._maybe_purge (the memory high-water mark is informational
\* and the memory-based branch is commented out in the source)
maybe_purge_never(c, maxc, keepc) == c

maybe_purge_keep_count_culled(c, maxc, keepc) == IF purge_due(c, maxc) THEN purge(c, keepc) ELSE c

maybe_purge(c, maxc, keepc) == IF purge_due(c, maxc) THEN purge(c, Len(c) - keepc) ELSE c

\* UsageBasedCacheManager.add
UsageBased_add(c, name, asset, maxc, keepc) == maybe_purge(DictInsert(DictPop(c, name), name, asset), maxc, keepc)

\* UsageBasedCacheManager.remove
UsageBased_remove(c, name) == DictPop(c, name)

\* UsageBasedCacheManager.wipe
UsageBased_wipe(c, prefix) == IF prefix = <<>> THEN <<>> ELSE SelectSeq(c, LAMBDA e : ~StartsWith(e.name, prefix))

\* UAsset.is_context_satisfied(ctx): a container parsed in full satisfies any
\* requirement, a partial one only a partial requirement
is_context_satisfied(asset, ctx) == asset.ctx = "full" \/ ctx = "partial"

\* ContextAwareCacheWrapper.lookup: the value returned under the current context
ContextAware_lookup_nocheck(c, name, ctx) == UsageBased_lookup_result(c, name)

ContextAware_lookup_result(c, name, ctx) ==
    LET asset == UsageBased_lookup_result(c, name)
    IN  IF ~Truthy(asset) THEN NoneAsset
        ELSE IF ~is_context_satisfied(asset, ctx) THEN NoneAsset
        ELSE asset

(***************************************************************************)
(* Files and export tables                                                 *)
(***************************************************************************)
wDefaultPrefix == <<"D","e","f","a","u","l","t","_","_">>

Export(name, namespace) == [name |-> name, namespace |-> namespace]

\* asset.exports after deserialise, by leaf name of the file
ExportsOf(leafname) ==
    IF Lower(leafname) = Lower(wFoo)
    THEN <<Export(wFoo, "Other"), Export(wDefaultPrefix \o wFoo, "None"), Export(wFoo, "None")>>
    ELSE <<Export(wBar, "None"), Export(wFoo, "Other")>>

\* assetname.split('/')[-1]
LeafName(assetname) == LET parts == Split(assetname, Slash) IN parts[Len(parts)]

Indices(exports) == [i \in 1..Len(exports) |-> i]

\* top_exports whose name starts with 'Default__', as indices in table order
\* (alternative defined first: the namespace is not looked at)
DefaultNamed_any_namespace(exports) == SelectSeq(Indices(exports), LAMBDA i : StartsWith(exports[i].name, wDefaultPrefix))

DefaultNamed(exports) == SelectSeq(Indices(exports), LAMBDA i : exports[i].namespace = "None" /\ StartsWith(exports[i].name, wDefaultPrefix))

\* top_exports named like the asset, case-insensitively, as indices in table order
\* (alternative defined first: the names compared as written)
LeafNamed_exact_case(exports, leafname) == SelectSeq(Indices(exports), LAMBDA i : exports[i].namespace = "None" /\ exports[i].name = leafname)

LeafNamed(exports, leafname) == SelectSeq(Indices(exports), LAMBDA i : exports[i].namespace = "None" /\ Lower(exports[i].name) = Lower(leafname))

\* AssetLoader._load_asset, default-export selection: the index chosen (0 for None)
select_default_export(exports, leafname) ==
    IF Len(DefaultNamed(exports)) > 0 THEN DefaultNamed(exports)[1]
    ELSE IF Len(LeafNamed(exports, leafname)) > 1 THEN 0
    ELSE IF Len(LeafNamed(exports, leafname)) = 1 THEN LeafNamed(exports, leafname)[1]
    ELSE 0

\* AssetLoader._load_asset, default-export selection: the warnings logged, in order
select_warnings(exports, leafname) ==
    (IF Len(DefaultNamed(exports)) > 1 THEN <<"more than one Default__ entry">> ELSE <<>>)
    \o (IF Len(DefaultNamed(exports)) = 0 /\ Len(LeafNamed(exports, leafname)) > 1 THEN <<"more than <assetname> export">> ELSE <<>>)

\* load_raw_asset: the first of ('.uasset', '.umap') whose path is a file
Exts == <<extUasset, extUmap>>

FirstExt(has) == IF extUasset \in has THEN Some(extUasset) ELSE IF extUmap \in has THEN Some(extUmap) ELSE None

(***************************************************************************)
(* The asset directory: find_caseinsensitive_path_match,                   *)
(* find_caseinsensitive_path, and the existence checks of                  *)
(* convert_asset_name_to_path and load_raw_asset.  A path is the sequence  *)
(* of its segments below asset_path; the directories are the proper        *)
(* prefixes of the files.                                                  *)
(***************************************************************************)
IsPrefix(p, f) == Len(p) <= Len(f) /\ SubSeq(f, 1, Len(p)) = p

\* path.exists()
PathExists(disk, p) == \E f \in disk : IsPrefix(p, f)

\* path.is_file()
IsFile(disk, p) == p \in disk

\* path.is_dir(); asset_path itself is a directory
IsDir(disk, p) == p = <<>> \/ \E f \in disk : IsPrefix(p, f) /\ Len(f) > Len(p)

\* parent.iterdir(): the entries of a directory
IterDir(disk, parent) == {SubSeq(f, 1, Len(parent) + 1) : f \in {g \in disk : IsPrefix(parent, g) /\ Len(g) > Len(parent)}}

\* path.parent and path.name
Parent(p) == SubSeq(p, 1, Len(p) - 1)

PathName(p) == p[Len(p)]

\* What the module keeps between calls (path_match_cache) and what the history
\* records of the calls made: st = [memo, missed, calls]
CallOf(path, st, scanned, res) ==
    [path |-> path, known |-> path \in DOMAIN st.memo, missed |-> path \in st.missed, scanned |-> scanned, res |-> res]

Recorded(st, call) == [st EXCEPT !.calls = Append(@, call)]

Memoised(st, path, found) == [st EXCEPT !.memo = (path :> found) @@ @]

\* find_caseinsensitive_path_match(path): the possible outcomes [res, err, st]; the
\* order of iterdir() is the file system's, so any entry that matches may be found
\* -- from line 590 on, when path_match_cache has no entry for the path
path_match_uncached(path, st, disk) ==
    IF PathExists(disk, path)
    THEN {[res |-> Some(path), err |-> "", st |-> Recorded(Memoised(st, path, path), CallOf(path, st, FALSE, Some(path)))]}
    ELSE IF ~IsDir(disk, Parent(path))
    THEN {[res |-> None, err |-> "OSError", st |-> Recorded(st, CallOf(path, st, FALSE, None))]}
    ELSE LET matches == {e \in IterDir(disk, Parent(path)) : Lower(PathName(e)) = Lower(PathName(path))}
         IN  IF matches = {}
             THEN {[res |-> None, err |-> "", st |-> Recorded([st EXCEPT !.missed = @ \cup {path}], CallOf(path, st, TRUE, None))]}
             ELSE {[res |-> Some(found), err |-> "", st |-> Recorded(Memoised(st, path, found), CallOf(path, st, TRUE, Some(found)))] : found \in matches}

\* (alternative defined first: path_match_cache is not consulted)
path_match_memo_ignored(path, st, disk) == path_match_uncached(path, st, disk)

path_match(path, st, disk) ==
    IF path \in DOMAIN st.memo
    THEN {[res |-> Some(st.memo[path]), err |-> "", st |-> Recorded(st, CallOf(path, st, FALSE, Some(st.memo[path])))]}
    ELSE path_match_uncached(path, st, disk)

\* find_caseinsensitive_path(base, *parts), from segment i on, current being the path
\* matched so far (None once a segment had no match)
RECURSIVE FindFrom(_, _, _, _, _)
FindFrom(current, parts, i, st, disk) ==
    IF i > Len(parts) THEN {[res |-> current, err |-> "", st |-> st]}
    ELSE IF current.none THEN {[res |-> None, err |-> "", st |-> st]}
    ELSE UNION {IF o.err # "" THEN {o} ELSE FindFrom(o.res, parts, i + 1, o.st, disk) :
                    o \in path_match(current.val \o <<parts[i]>>, st, disk)}

find_caseinsensitive_path(parts, st, disk) == FindFrom(Some(<<>>), parts, 1, st, disk)

\* convert_asset_name_to_path(name, ext=ext) with check_exists: the path as written if
\* it is a file, else what the case-insensitive search finds
convert_checked(name, ext, st, disk, m) ==
    LET path == convert_asset_name_to_path(name, FALSE, ext, m)
    IN  IF path.err # "" THEN {[res |-> None, err |-> path.err, st |-> st]}
        ELSE IF IsFile(disk, path.val) THEN {[res |-> Some(path.val), err |-> "", st |-> st]}
        ELSE find_caseinsensitive_path(path.val, st, disk)

\* What trying one extension leaves to do: o is an outcome of convert_checked
ExtFound(o, disk) == o.err = "" /\ ~o.res.none /\ IsFile(disk, o.res.val)

\* load_raw_asset(name): the possible outcomes [err, ext, st]
\* (alternative defined first: only the '.uasset' candidate is tried)
load_raw_asset_uasset_only(name, st, disk, m) ==
    LET cleaned == clean_asset_name(name, m)
    IN  IF cleaned.err # "" THEN {[err |-> cleaned.err, ext |-> <<>>, st |-> st]}
        ELSE {IF o1.err # "" THEN [err |-> o1.err, ext |-> <<>>, st |-> o1.st]
              ELSE IF ExtFound(o1, disk) THEN [err |-> "", ext |-> extUasset, st |-> o1.st]
              ELSE [err |-> "AssetNotFound", ext |-> <<>>, st |-> o1.st] :
                  o1 \in convert_checked(cleaned.val, extUasset, st, disk, m)}

load_raw_asset(name, st, disk, m) ==
    LET cleaned == clean_asset_name(name, m)
    IN  IF cleaned.err # "" THEN {[err |-> cleaned.err, ext |-> <<>>, st |-> st]}
        ELSE UNION {
            IF o1.err # "" THEN {[err |-> o1.err, ext |-> <<>>, st |-> o1.st]}
            ELSE IF ExtFound(o1, disk) THEN {[err |-> "", ext |-> extUasset, st |-> o1.st]}
            ELSE {IF o2.err # "" THEN [err |-> o2.err, ext |-> <<>>, st |-> o2.st]
                  ELSE IF ExtFound(o2, disk) THEN [err |-> "", ext |-> extUmap, st |-> o2.st]
                  ELSE [err |-> "AssetNotFound", ext |-> <<>>, st |-> o2.st] :
                      o2 \in convert_checked(cleaned.val, extUmap, o1.st, disk, m)} :
                o1 \in convert_checked(cleaned.val, extUasset, st, disk, m)}

(***************************************************************************)
(* Names used as inputs                                                    *)
(***************************************************************************)
sl == <<Slash>>

nGameFoo == sl \o wGame \o sl \o wFoo

nMod2Bar == sl \o wGame \o sl \o wMods \o sl \o <<"2">> \o sl \o wBar

nModAlphaFoo == sl \o wGame \o sl \o wMods \o sl \o wAlpha \o sl \o wFoo

nModBetaBar == sl \o wGame \o sl \o wMods \o sl \o wbeta \o sl \o wBar

nMod1Foo == sl \o wGame \o sl \o wMods \o sl \o <<"1">> \o sl \o wFoo

nMod9Foo == sl \o wGame \o sl \o wMods \o sl \o <<"9">> \o sl \o wFoo

nGameFooClass == wGame \o <<Backslash>> \o wFoo \o <<Dot>> \o wFoo

\* Names a cache manager is called with directly
Keys == {nGameFoo, nModAlphaFoo, nModBetaBar}

\* Names load_asset and partially_load_asset are called with
RawNames == {nGameFoo, nGameFooClass, nMod1Foo, nMod2Bar, nMod9Foo}

\* Prefixes wipe is called with ('' wipes everything)
Prefixes == {<<>>, sl \o wGame \o sl \o wMods, sl \o wGame \o sl \o wMods \o sl \o wAlpha}

Contexts == {"full", "partial"}

\* mods.ini [ids]: two mods
IniMods == <<<< <<"1">>, wAlpha >>, << <<"2">>, wbeta >>>>

(***************************************************************************)
(* State                                                                   *)
(***************************************************************************)
NoCall == [op |-> "", assetname |-> <<>>, doNotLink |-> FALSE, cache_result |-> FALSE, ctx |-> "", asset |-> NoneAsset, pending |-> "", failed |-> FALSE, pre |-> <<>>]

NoOp == [op |-> "", name |-> <<>>, ctx |-> "", res |-> NoneAsset, inner |-> NoneAsset, val |-> None, err |-> "", purged |-> FALSE, releases |-> 0, mem |-> "none"]

\* A completed call that held no raw buffer
Done(op, name, ctx, res, err, purged) == [op |-> op, name |-> name, ctx |-> ctx, res |-> res, inner |-> NoneAsset, val |-> None, err |-> err, purged |-> purged, releases |-> 0, mem |-> "none"]

NoName == [stage |-> "", x |-> <<>>, y |-> <<>>, n |-> 0, kinds |-> {}, cx |-> Ok(<<>>), cy |-> Ok(<<>>), ccy |-> Ok(<<>>), py |-> Ok(<<>>), cpy |-> Ok(<<>>)]

\* No export table under selection
NoSel == [stage |-> "", exports |-> <<>>, leafname |-> <<>>, default_export |-> 0, warnings |-> <<>>]

\* An empty asset directory and an empty path_match_cache; no path queried.  disk is
\* the set of files below asset_path, memo is path_match_cache, calls lists the calls
\* of find_caseinsensitive_path_match made by the last operation, missed is the set of
\* paths for which such a call has found no match, ext is asset.file_ext of the load
NoFs == [disk |-> {}, memo |-> <<>>, missed |-> {}, calls |-> <<>>, ext |-> <<>>]

\* No blob being parsed
NoStream == [at |-> <<>>, len |-> 0, struct_size |-> 0, instances |-> <<>>]

NoGeo == [stage |-> "", stream |-> NoStream, offset |-> 0, left |-> 0, counted |-> 0, instances |-> <<>>, err |-> "", fields |-> <<>>]

\* No scan, no proxy, no second cache, no cache file and no load_class call
NoScan == [stage |-> ""]

NoPx == [stage |-> ""]

NoDc == [cache |-> <<>>]

NoCf == [stage |-> ""]

NoCls == [stage |-> ""]

NoEx == [stage |-> ""]

\* The parts of the state a specification does not use
Idle == scan = NoScan /\ px = NoPx /\ dc = NoDc /\ cf = NoCf /\ cls = NoCls /\ ex = NoEx

\* history: name was just touched (lookup hit or add); only cached names are kept
Touch(t, name, c) == SelectSeq(Append(SelectSeq(t, LAMBDA n : n # name), name), LAMBDA n : DictHas(c, n))

Forget(t, c) == SelectSeq(t, LAMBDA n : DictHas(c, n))

Init ==
    /\ cache = <<>>
    /\ max_count \in 1..MaxCount
    /\ keep_count \in 0..(max_count - 1)
    /\ mods = IniMods
    /\ pc = "idle"
    /\ cur = NoCall
    /\ mem = "none"
    /\ releases = 0
    /\ touched = <<>>
    /\ last = NoOp
    /\ nm = NoName
    /\ sel = NoSel
    /\ fs = NoFs
    /\ geo = NoGeo
    /\ Idle

(***************************************************************************)
(* Calls on the cache manager: ContextAwareCacheWrapper(UsageBasedCacheManager) *)
(***************************************************************************)
\* A container as a successful _load_asset of name under ctx builds it
Loaded(name, ctx) == [parsed |-> "linked", ctx |-> ctx, assetname |-> name, default_export |-> select_default_export(ExportsOf(LeafName(name)), LeafName(name))]

\* cache.add(name, asset) with a parsed container
Add(name, ctx) ==
    /\ pc = "idle"
    /\ LET asset == Loaded(name, ctx)
           inserted == DictInsert(DictPop(cache, name), name, asset)
       IN  /\ cache' = UsageBased_add(cache, name, asset, max_count, keep_count)
           /\ last' = Done("add", name, ctx, asset, "", purge_due(inserted, max_count))
    /\ touched' = Touch(touched, name, cache')
    /\ UNCHANGED <<max_count, keep_count, mods, pc, cur, mem, releases, nm, sel, fs, geo, scan, px, dc, cf, cls, ex>>

\* cache.lookup(name) while the parsing context is ctx
Lookup(name, ctx) ==
    /\ pc = "idle"
    /\ cache' = UsageBased_lookup(cache, name)
    /\ last' = [Done("lookup", name, ctx, ContextAware_lookup_result(cache, name, ctx), "", FALSE) EXCEPT !.inner = UsageBased_lookup_result(cache, name)]
    /\ touched' = IF DictHas(cache, name) THEN Touch(touched, name, cache') ELSE Forget(touched, cache')
    /\ UNCHANGED <<max_count, keep_count, mods, pc, cur, mem, releases, nm, sel, fs, geo, scan, px, dc, cf, cls, ex>>

\* cache.remove(name)
Remove(name) ==
    /\ pc = "idle"
    /\ cache' = UsageBased_remove(cache, name)
    /\ last' = Done("remove", name, "", NoneAsset, "", FALSE)
    /\ touched' = Forget(touched, cache')
    /\ UNCHANGED <<max_count, keep_count, mods, pc, cur, mem, releases, nm, sel, fs, geo, scan, px, dc, cf, cls, ex>>

\* AssetLoader.wipe_cache / wipe_cache_with_prefix: cache.wipe(prefix)
Wipe(prefix) ==
    /\ pc = "idle"
    /\ cache' = UsageBased_wipe(cache, prefix)
    /\ last' = Done("wipe", prefix, "", NoneAsset, "", FALSE)
    /\ touched' = Forget(touched, cache')
    /\ UNCHANGED <<max_count, keep_count, mods, pc, cur, mem, releases, nm, sel, fs, geo, scan, px, dc, cf, cls, ex>>

CacheNext ==
    \/ \E name \in Keys, ctx \in Contexts : Add(name, ctx)
    \/ \E name \in Keys, ctx \in Contexts : Lookup(name, ctx)
    \/ \E name \in Keys : Remove(name)
    \/ \E prefix \in Prefixes : Wipe(prefix)

(***************************************************************************)
(* AssetLoader.load_asset, partially_load_asset and _load_asset            *)
(***************************************************************************)
\* The context a container records: whether it was parsed fully or only partially
\* (deserialise-only, doNotLink), whatever the context in force required
ParseContext(ctx, doNotLink) == IF doNotLink THEN "partial" ELSE "full"

Call(op, assetname, doNotLink, cache_result, ctx, pre) == [op |-> op, assetname |-> assetname, doNotLink |-> doNotLink, cache_result |-> cache_result, ctx |-> ctx, asset |-> NoneAsset, pending |-> "", failed |-> FALSE, pre |-> pre]

\* The call in flight ends (returning res or raising err); its frame, and with it the
\* local "mem", is gone, and the history keeps how the buffer was left
Exit(res, err, purged, m, rel) ==
    /\ pc' = "idle"
    /\ last' = [op |-> cur.op, name |-> cur.assetname, ctx |-> cur.ctx, res |-> res, inner |-> NoneAsset, val |-> None, err |-> err, purged |-> purged, releases |-> rel, mem |-> m]
    /\ cur' = NoCall
    /\ mem' = "none"
    /\ releases' = 0

\* load_asset, up to the call of _load_asset: cleaned = clean_asset_name(raw), then
\* (use_cache and self.cache.lookup(assetname)) or self._load_asset(...)
LoadAsset(raw, cleaned, use_cache, cache_result, ctx) ==
    /\ pc = "idle"
    /\   IF cleaned.err # ""
         THEN /\ last' = Done("load_asset", raw, ctx, NoneAsset, cleaned.err, FALSE)
              /\ UNCHANGED <<cache, pc, cur, touched>>
         ELSE \E found \in {IF use_cache THEN ContextAware_lookup_result(cache, cleaned.val, ctx) ELSE NoneAsset} :
              /\ cache' = IF use_cache THEN UsageBased_lookup(cache, cleaned.val) ELSE cache
              /\ touched' = IF use_cache /\ DictHas(cache, cleaned.val) THEN Touch(touched, cleaned.val, cache') ELSE Forget(touched, cache')
              /\ IF Truthy(found)
                 THEN /\ last' = Done("load_asset", cleaned.val, ctx, found, "", FALSE)
                      /\ UNCHANGED <<pc, cur>>
                 ELSE /\ pc' = "load_raw"
                      /\ cur' = Call("load_asset", cleaned.val, FALSE, cache_result, ctx, cache)
                      /\ last' = NoOp
    /\ UNCHANGED <<max_count, keep_count, mods, mem, releases, nm, sel, fs, geo, scan, px, dc, cf, cls, ex>>

\* partially_load_asset: _load_asset(assetname, doNotLink=True), the name as given
PartiallyLoadAsset(raw, cache_result) ==
    /\ pc = "idle"
    /\ pc' = "load_raw"
    /\ cur' = Call("partially_load_asset", raw, TRUE, cache_result, "partial", cache)
    /\ last' = NoOp
    /\ UNCHANGED <<cache, max_count, keep_count, mods, mem, releases, touched, nm, sel, fs, geo, scan, px, dc, cf, cls, ex>>

\* load_raw_asset: clean the name, try '.uasset' then '.umap'; "has" is the set of
\* extensions for which the path is a file
LoadRaw(has) ==
    /\ pc = "load_raw"
    /\ \E cleaned \in {clean_asset_name(cur.assetname, mods)} :
       \E path \in {convert_asset_name_to_path(cleaned.val, FALSE, extUasset, mods)} :
         IF cleaned.err # "" THEN Exit(NoneAsset, cleaned.err, FALSE, mem, releases)
         ELSE IF path.err # "" THEN Exit(NoneAsset, path.err, FALSE, mem, releases)
         ELSE IF FirstExt(has).none THEN Exit(NoneAsset, "AssetNotFound", FALSE, mem, releases)
         ELSE /\ mem' = "held"
              /\ pc' = "deserialise"
              /\ UNCHANGED <<cur, last, releases>>
    /\ UNCHANGED <<cache, max_count, keep_count, mods, touched, nm, sel, fs, geo, scan, px, dc, cf, cls, ex>>

\* except Exception as ex: raise AssetParseError(assetname) from ex -- what a failure
\* inside deserialise or link leaves pending
parse_error_swallowed(ok) == ""

parse_error_unwrapped(ok) == IF ok THEN "" ELSE "Exception"

parse_error(ok) == IF ok THEN "" ELSE "AssetParseError"

\* asset = UAsset(stream); asset.deserialise(); if doNotLink: return asset
Deserialise(ok) ==
    /\ pc = "deserialise"
    /\ cur' = [cur EXCEPT !.asset = [NewAsset(ParseContext(cur.ctx, cur.doNotLink), cur.assetname) EXCEPT !.parsed = IF ok THEN "deserialised" ELSE "new"],
                          !.pending = IF parse_error(ok) # "" THEN parse_error(ok) ELSE IF cur.doNotLink THEN "return" ELSE "",
                          !.failed = ~ok]
    /\ pc' = IF parse_error(ok) = "" /\ ~cur.doNotLink THEN "link" ELSE "finally"
    /\ UNCHANGED <<cache, max_count, keep_count, mods, mem, releases, touched, last, nm, sel, fs, geo, scan, px, dc, cf, cls, ex>>

\* asset.link()
Link(ok) ==
    /\ pc = "link"
    /\ cur' = [cur EXCEPT !.asset.parsed = IF ok /\ @ = "deserialised" THEN "linked" ELSE @, !.pending = parse_error(ok), !.failed = @ \/ ~ok]
    /\ pc' = "finally"
    /\ UNCHANGED <<cache, max_count, keep_count, mods, mem, releases, touched, last, nm, sel, fs, geo, scan, px, dc, cf, cls, ex>>

\* try: ... finally: mem.release() -- the clause runs on every way out of the try
\* block: the pending exception, the pending return, and falling through
release_only_on_fallthrough(pending) == pending = ""

runs_finally(pending) == pending \in {"", "return", "AssetParseError"}

\* finally: mem.release(), then the pending exception or return takes effect
Finally ==
    /\ pc = "finally"
    /\ \E m \in {IF runs_finally(cur.pending) THEN "released" ELSE mem} :
       \E rel \in {IF runs_finally(cur.pending) THEN releases + 1 ELSE releases} :
         IF cur.pending = "AssetParseError" THEN Exit(NoneAsset, "AssetParseError", FALSE, m, rel)
         ELSE IF cur.pending = "return" THEN Exit(cur.asset, "", FALSE, m, rel)
         ELSE /\ pc' = "select"
              /\ mem' = m
              /\ releases' = rel
              /\ UNCHANGED <<cur, last>>
    /\ UNCHANGED <<cache, max_count, keep_count, mods, touched, nm, sel, fs, geo, scan, px, dc, cf, cls, ex>>

\* default-export selection
SelectDefault ==
    /\ pc = "select"
    /\ cur' = [cur EXCEPT !.asset.default_export = select_default_export(ExportsOf(LeafName(cur.assetname)), LeafName(cur.assetname))]
    /\ pc' = "cache_add"
    /\ UNCHANGED <<cache, max_count, keep_count, mods, mem, releases, touched, last, nm, sel, fs, geo, scan, px, dc, cf, cls, ex>>

\* if cache_result: self.cache.add(assetname, asset); return asset
CacheResult ==
    /\ pc = "cache_add"
    /\ cache' = IF cur.cache_result THEN UsageBased_add(cache, cur.assetname, cur.asset, max_count, keep_count) ELSE cache
    /\ touched' = IF cur.cache_result THEN Touch(touched, cur.assetname, cache') ELSE touched
    /\ Exit(cur.asset, "", cur.cache_result /\ purge_due(DictInsert(DictPop(cache, cur.assetname), cur.assetname, cur.asset), max_count), mem, releases)
    /\ UNCHANGED <<max_count, keep_count, mods, nm, sel, fs, geo, scan, px, dc, cf, cls, ex>>

LoaderNext ==
    \/ \E raw \in RawNames : \E cleaned \in {clean_asset_name(raw, mods)} : \E use_cache \in BOOLEAN, cache_result \in BOOLEAN, ctx \in Contexts : LoadAsset(raw, cleaned, use_cache, cache_result, ctx)
    \/ \E raw \in RawNames, cache_result \in BOOLEAN : PartiallyLoadAsset(raw, cache_result)
    \/ \E has \in SUBSET {extUasset, extUmap} : LoadRaw(has)
    \/ \E ok \in BOOLEAN : Deserialise(ok)
    \/ \E ok \in BOOLEAN : Link(ok)
    \/ Finally
    \/ SelectDefault
    \/ CacheResult

Next == CacheNext \/ LoaderNext

Spec == Init /\ [][Next]_vars

\* The loader as its callers drive it: containers enter the cache through load_asset
\* only, and leave it by purge, __delitem__ or wipe_cache
LoadOnlyNext ==
    \/ LoaderNext
    \/ \E name \in Keys : Remove(name)
    \/ \E prefix \in Prefixes : Wipe(prefix)

LoaderSpec == Init /\ [][LoadOnlyNext]_vars

(***************************************************************************)
(* The loader over an asset directory                                      *)
(***************************************************************************)
nGameBar == sl \o wGame \o sl \o wBar

FsNames == {nGameFoo, nGameBar}

\* Leaf files that may be in the content directory: Foo.uasset, foo.umap, bar.uasset
FsLeaves == {wFoo \o extUasset, wfoo \o extUmap, Lower(wBar) \o extUasset}

\* The content directory is written 'Content' or 'content' on disk
FsDisks == {{<<dir, leaf>> : leaf \in leaves} : dir \in {wContent, wcontent}, leaves \in SUBSET FsLeaves}

\* Paths find_caseinsensitive_path_match is called with directly
FsPaths == {<<wContent>>, <<wContent, wFoo \o extUasset>>, <<wContent, wFoo \o extUmap>>, <<wcontent, wFoo \o extUmap>>}

FsInit ==
    /\ cache = <<>>
    /\ max_count = MaxCount
    /\ keep_count = MaxCount - 1
    /\ mods = IniMods
    /\ pc = "idle"
    /\ cur = NoCall
    /\ mem = "none"
    /\ releases = 0
    /\ touched = <<>>
    /\ last = NoOp
    /\ nm = NoName
    /\ sel = NoSel
    /\ \E disk \in FsDisks : fs = [NoFs EXCEPT !.disk = disk]
    /\ geo = NoGeo
    /\ Idle

\* The module state a call starts from, and fs after the call
FsState == [memo |-> fs.memo, missed |-> fs.missed, calls |-> <<>>]

FsAfter(st, ext) == [fs EXCEPT !.memo = st.memo, !.missed = st.missed, !.calls = st.calls, !.ext = ext]

\* find_caseinsensitive_path_match(path), called on its own
FindCaseinsensitivePathMatch(path) ==
    /\ pc = "idle"
    /\ \E o \in path_match(path, FsState, fs.disk) :
         /\ fs' = FsAfter(o.st, fs.ext)
         /\ last' = [Done("find_caseinsensitive_path_match", Join(path, Slash), "", NoneAsset, o.err, FALSE)
                        EXCEPT !.val = IF o.res.none THEN None ELSE Some(Join(o.res.val, Slash))]
    /\ UNCHANGED <<cache, max_count, keep_count, mods, pc, cur, mem, releases, touched, nm, sel, geo, scan, px, dc, cf, cls, ex>>

\* _load_asset, line 522: mem, ext = self.load_raw_asset(assetname), over the disk
FsLoadRaw ==
    /\ pc = "load_raw"
    /\ \E o \in load_raw_asset(cur.assetname, FsState, fs.disk, mods) :
         /\ fs' = FsAfter(o.st, o.ext)
         /\ IF o.err # "" THEN Exit(NoneAsset, o.err, FALSE, mem, releases)
            ELSE /\ mem' = "held"
                 /\ pc' = "deserialise"
                 /\ UNCHANGED <<cur, last, releases>>
    /\ UNCHANGED <<cache, max_count, keep_count, mods, touched, nm, sel, geo, scan, px, dc, cf, cls, ex>>

FsNext ==
    \/ \E raw \in FsNames : \E cleaned \in {clean_asset_name(raw, mods)} : \E use_cache \in BOOLEAN, cache_result \in BOOLEAN : LoadAsset(raw, cleaned, use_cache, cache_result, "full")
    \/ FsLoadRaw
    \/ \E ok \in BOOLEAN : Deserialise(ok)
    \/ \E ok \in BOOLEAN : Link(ok)
    \/ Finally
    \/ SelectDefault
    \/ CacheResult
    \/ \E path \in FsPaths : FindCaseinsensitivePathMatch(path)

FsSpec == FsInit /\ [][FsNext]_vars

(***************************************************************************)
(* InstancedStaticMeshComponentObject._deserialise: the instanced-geometry *)
(* blob.  A stream is what was written, field by field: at maps the byte   *)
(* offset of each field to the field, the bytes between fields are         *)
(* padding; struct_size and instances repeat what the writer stored.       *)
(***************************************************************************)
\* The struct size the parser expects
ExpectedStructSize == 80

\* Bytes taken by a StripDataFlags: the global and the class flags, one byte each
StripDataFlagsSize == 2

Field(kind, size, val) == [kind |-> kind, size |-> size, val |-> val]

Pad(size) == [kind |-> "pad", size |-> size, val |-> 0]

\* The fields of items i.. by offset, items[i] starting at off; and the offset after
\* the last item
RECURSIVE Place(_, _, _)
Place(items, i, off) ==
    IF i > Len(items) THEN <<>>
    ELSE IF items[i].kind = "pad" THEN Place(items, i + 1, off + items[i].size)
    ELSE (off :> items[i]) @@ Place(items, i + 1, off + items[i].size)

RECURSIVE SumSizes(_, _)
SumSizes(items, n) == IF n = 0 THEN 0 ELSE SumSizes(items, n - 1) + items[n].size

\* The stream holding the items one after the other
Layout(items, struct_size, instances) ==
    [at |-> Place(items, 1, 0), len |-> SumSizes(items, Len(items)), struct_size |-> struct_size, instances |-> instances]

\* What a read finds where no field of the kind starts
Garbage(kind) ==
    IF kind = "bool8" THEN FALSE
    ELSE IF kind = "flags" THEN [editor |-> FALSE, server |-> FALSE, custom1 |-> FALSE]
    ELSE 999

\* stream.readUInt32(), readFloat(), readBool8(), StripDataFlags(self).deserialise()
\* at an offset
ReadAt(stream, off, kind) ==
    IF off \in DOMAIN stream.at /\ stream.at[off].kind = kind THEN stream.at[off].val ELSE Garbage(kind)

\* One LOD section as written: lod = [flags, has_color, color_strip, color_num, paint_count]
LodItems(lod) ==
    <<Field("flags", StripDataFlagsSize, lod.flags)>>
    \o (IF ~lod.flags.server THEN <<Pad(8)>> ELSE <<>>)
    \o (IF ~lod.flags.custom1
        THEN <<Field("bool8", 1, lod.has_color)>>
             \o (IF lod.has_color
                 THEN <<Field("flags", StripDataFlagsSize, lod.color_strip), Pad(4), Field("u32", 4, lod.color_num)>>
                      \o (IF lod.color_num > 0 /\ ~lod.color_strip.server THEN <<Pad(4 * lod.color_num + 8)>> ELSE <<>>)
                 ELSE <<>>)
        ELSE <<>>)
    \o (IF ~lod.flags.editor
        THEN <<Field("u32", 4, lod.paint_count)>> \o (IF lod.paint_count > 0 THEN <<Pad(29 * lod.paint_count)>> ELSE <<>>)
        ELSE <<>>)

\* One instance record as written: a 4x4 matrix whose last row starts with the origin,
\* then the UV biases
InstanceItems(xyz) ==
    <<Pad(48), Field("f32", 4, xyz[1]), Field("f32", 4, xyz[2]), Field("f32", 4, xyz[3]), Pad(4), Pad(16)>>

RECURSIVE Flatten(_)
Flatten(seqs) == IF seqs = <<>> THEN <<>> ELSE Head(seqs) \o Flatten(Tail(seqs))

BlobItems(lods, struct_size, instances) ==
    <<Field("u32", 4, Len(lods))>>
    \o Flatten([i \in 1..Len(lods) |-> LodItems(lods[i])])
    \o <<Field("u32", 4, struct_size), Field("u32", 4, Len(instances))>>
    \o Flatten([i \in 1..Len(instances) |-> InstanceItems(instances[i])])

\* The LOD sections, struct sizes and origins tried
StripFlags == [editor : BOOLEAN, server : BOOLEAN, custom1 : BOOLEAN]

NoColorStrip == [editor |-> FALSE, server |-> FALSE, custom1 |-> FALSE]

Lods ==
    {lod \in [flags : StripFlags, has_color : BOOLEAN, color_strip : {NoColorStrip, [NoColorStrip EXCEPT !.server = TRUE]}, color_num : {0, 2}, paint_count : {0, 1}] :
        /\ lod.flags.custom1 => ~lod.has_color
        /\ ~lod.has_color => (lod.color_strip = NoColorStrip /\ lod.color_num = 0)
        /\ lod.flags.editor => lod.paint_count = 0}

StructSizes == {ExpectedStructSize, 64}

Origins == {<<1, 2, 3>>, <<4, 5, 6>>}

SeqsUpTo(S, n) == UNION {[1..k -> S] : k \in 0..n}

GeoStreams(max_lods, max_instances) ==
    {Layout(BlobItems(lods, struct_size, instances), struct_size, instances) :
        lods \in SeqsUpTo(Lods, max_lods), struct_size \in StructSizes, instances \in SeqsUpTo(Origins, max_instances)}

\* Lines 20-43: the offset after the LOD section that starts at off
\* -- lines 28-37: the vertex colour data that starts at off
after_color_data(stream, off) ==
    IF ReadAt(stream, off, "bool8")
    THEN LET color_strip == ReadAt(stream, off + 1, "flags")
             color_num == ReadAt(stream, off + 1 + StripDataFlagsSize + 4, "u32")
             after == off + 1 + StripDataFlagsSize + 4 + 4
         IN  IF color_num > 0 /\ ~color_strip.server THEN after + 4 * color_num + 8 ELSE after
    ELSE off + 1

\* -- lines 41-43: the painted vertices that start at off
after_painted(stream, off) == off + 4 + ReadAt(stream, off, "u32") * (3 * 4 + 4 * 4 + 1)

after_lod(stream, off) ==
    LET strip_flags == ReadAt(stream, off, "flags")
        o1 == off + StripDataFlagsSize
        o2 == IF ~strip_flags.server THEN o1 + 8 ELSE o1
        o3 == IF ~strip_flags.custom1 THEN after_color_data(stream, o2) ELSE o2
    IN  IF ~strip_flags.editor THEN after_painted(stream, o3) ELSE o3

\* Line 47: assert self.stream.readUInt32() == 80
\* (alternative defined first: any stored size is accepted)
struct_size_unchecked(stored) == TRUE

struct_size_ok(stored) == stored = ExpectedStructSize

\* Lines 56-63: the origin of the instance record at off, and the offset after it
instance_origin(stream, off) ==
    <<ReadAt(stream, off + 4 * 3 * 4, "f32"), ReadAt(stream, off + 4 * 3 * 4 + 4, "f32"), ReadAt(stream, off + 4 * 3 * 4 + 8, "f32")>>

\* (alternative defined first: the record of later engine releases, without the
\* UV biases, line 60)
after_instance_no_uv_bias(off) == off + 4 * 3 * 4 + 3 * 4 + 4

after_instance(off) == off + 4 * 3 * 4 + 3 * 4 + 4 + 16

GeoInit ==
    /\ cache = <<>>
    /\ max_count = MaxCount
    /\ keep_count = MaxCount - 1
    /\ mods = IniMods
    /\ pc = "idle"
    /\ cur = NoCall
    /\ mem = "none"
    /\ releases = 0
    /\ touched = <<>>
    /\ last = NoOp
    /\ nm = NoName
    /\ sel = NoSel
    /\ fs = NoFs
    /\ \E stream \in GeoStreams(MaxLods, MaxInstances) : geo = [NoGeo EXCEPT !.stage = "start", !.stream = stream]
    /\ Idle

GeoFrame == UNCHANGED <<cache, max_count, keep_count, mods, pc, cur, mem, releases, touched, last, nm, sel, fs, scan, px, dc, cf, cls, ex>>

\* Line 17: lod_count = self.stream.readUInt32()
GeoReadLodCount ==
    /\ geo.stage = "start"
    /\ geo' = [geo EXCEPT !.stage = "lods", !.left = ReadAt(geo.stream, geo.offset, "u32"), !.offset = @ + 4]
    /\ GeoFrame

\* Lines 19-43: one turn of the LOD loop
GeoReadLod ==
    /\ geo.stage = "lods"
    /\ geo.left > 0
    /\ geo' = [geo EXCEPT !.left = @ - 1, !.offset = after_lod(geo.stream, @)]
    /\ GeoFrame

\* Lines 47-49: the struct-size check, then num_instances and the empty list
\* (counted keeps where the cursor stood once num_instances was read)
GeoCheckStructSize ==
    /\ geo.stage = "lods"
    /\ geo.left = 0
    /\ geo' = IF struct_size_ok(ReadAt(geo.stream, geo.offset, "u32"))
              THEN [geo EXCEPT !.stage = "instances", !.left = ReadAt(geo.stream, geo.offset + 4, "u32"), !.offset = @ + 8, !.counted = geo.offset + 8]
              ELSE [geo EXCEPT !.stage = "raised", !.err = "AssertionError", !.offset = @ + 4]
    /\ GeoFrame

\* Lines 51-63: one turn of the instance loop
GeoReadInstance ==
    /\ geo.stage = "instances"
    /\ geo.left > 0
    /\ geo' = [geo EXCEPT !.left = @ - 1, !.instances = Append(@, instance_origin(geo.stream, geo.offset)), !.offset = after_instance(@)]
    /\ GeoFrame

\* Line 65: self._newField('visible_instances', instances)
GeoNewField ==
    /\ geo.stage = "instances"
    /\ geo.left = 0
    /\ geo' = [geo EXCEPT !.stage = "done", !.fields = Append(@, [name |-> "visible_instances", value |-> geo.instances])]
    /\ GeoFrame

GeoNext ==
    \/ GeoReadLodCount
    \/ GeoReadLod
    \/ GeoCheckStructSize
    \/ GeoReadInstance
    \/ GeoNewField

GeomSpec == GeoInit /\ [][GeoNext]_vars

(***************************************************************************)
(* AssetLoader.find_assetnames: a walk over the files below toppath, with  *)
(* the extension filter, the name of each file as an asset, and the        *)
(* include / exclude / invert filter.  re.match is modelled for patterns   *)
(* made of literal characters, '.', 'x*' and a final '$'.                  *)
(***************************************************************************)
Star == "*"

Dollar == "$"

RECURSIVE MatchHere(_, _)
RECURSIVE MatchStar(_, _, _)
\* the pattern matches a prefix of the text
MatchHere(pattern, text) ==
    IF pattern = <<>> THEN TRUE
    ELSE IF Len(pattern) >= 2 /\ pattern[2] = Star THEN MatchStar(pattern[1], SubSeq(pattern, 3, Len(pattern)), text)
    ELSE IF pattern = <<Dollar>> THEN text = <<>>
    ELSE /\ text # <<>>
         /\ (pattern[1] = Dot \/ pattern[1] = text[1])
         /\ MatchHere(Tail(pattern), Tail(text))

MatchStar(c, pattern, text) ==
    \/ MatchHere(pattern, text)
    \/ /\ text # <<>>
       /\ (c = Dot \/ c = text[1])
       /\ MatchStar(c, pattern, Tail(text))

\* re.match(pattern, string) is not None
re_match(pattern, string) == MatchHere(pattern, string)

\* An argument given as None, as one string, or as an iterable of strings
NoArg == [kind |-> "none", val |-> <<>>]

StrArg(s) == [kind |-> "str", val |-> s]

TupleArg(t) == [kind |-> "tuple", val |-> t]

\* Lines 400-401: tuple(include, ) if isinstance(include, str) else tuple(include or ())
\* -- tuple(s, ) of a string s is the tuple of its characters
patterns_of(arg) ==
    IF arg.kind = "str" THEN [i \in 1..Len(arg.val) |-> <<arg.val[i]>>]
    ELSE arg.val

\* Lines 402-403: tuple((extension, )) if isinstance(extension, str) else tuple(extension or ()),
\* then lower-cased
extensions_of(arg) ==
    IF arg.kind = "str" THEN {Lower(arg.val)}
    ELSE {Lower(arg.val[i]) : i \in 1..Len(arg.val)}

\* any(re.match(p, assetname) for p in patterns)
any_match(patterns, assetname) == \E i \in 1..Len(patterns) : re_match(patterns[i], assetname)

\* os.path.splitext of a file name: the extension starts at the last dot
SplitExt(filename) ==
    LET dots == {i \in 2..Len(filename) : filename[i] = Dot}
    IN  IF dots = {} THEN [name |-> filename, ext |-> <<>>]
        ELSE LET i == CHOOSE d \in dots : \A e \in dots : e <= d
             IN  [name |-> SubSeq(filename, 1, i - 1), ext |-> SubSeq(filename, i, Len(filename))]

\* Lines 415-416: the asset name of a file below asset_path
\* str(Path(fullpath).relative_to(self.asset_path).with_suffix('')), cleaned
partialpath(file) == Join([file EXCEPT ![Len(file)] = SplitExt(@).name], Slash)

\* Lines 419-422: rewrites_to_asset is the inverse of rewrites, empty by default
rewrites_to_asset == <<>>

\* Lines 427-433: matched
filter_matched(includes, excludes, assetname) ==
    IF any_match(includes, assetname) THEN TRUE
    ELSE IF any_match(excludes, assetname) THEN FALSE
    ELSE TRUE

\* Lines 407-437 for one file: [skip, err, name, ext, yield]
scan_file(file, include, exclude, extension, invert, m) ==
    LET ext == SplitExt(file[Len(file)]).ext
        cleaned == clean_asset_name(partialpath(file), m)
    IN  IF Lower(ext) \notin extensions_of(extension)
        THEN [skip |-> TRUE, err |-> "", name |-> <<>>, ext |-> ext, yield |-> FALSE]
        ELSE IF cleaned.err # ""
        THEN [skip |-> FALSE, err |-> cleaned.err, name |-> <<>>, ext |-> ext, yield |-> FALSE]
        ELSE LET assetname == ApplyRewrites(cleaned.val, rewrites_to_asset)
             IN  [skip |-> FALSE, err |-> "", name |-> assetname, ext |-> ext,
                  yield |-> (filter_matched(patterns_of(include), patterns_of(exclude), assetname) # invert)]

\* Line 405: convert_asset_name_to_path(toppath, partial=True): the directory as written
\* if it is one, else what the case-insensitive search finds
scan_top(toppath, disk, m) ==
    LET path == convert_asset_name_to_path(toppath, TRUE, <<>>, m)
    IN  IF path.err # "" THEN {[res |-> None, err |-> path.err]}
        ELSE IF IsDir(disk, path.val) THEN {[res |-> Some(path.val), err |-> ""]}
        ELSE {[res |-> o.res, err |-> o.err] : o \in find_caseinsensitive_path(path.val, [memo |-> <<>>, missed |-> {}, calls |-> <<>>], disk)}

\* The files tried
wMaps == <<"M","a","p","s">>

Upper(s) == [i \in 1..Len(s) |-> UpperChar(s[i])]

ScanDisk ==
    {<<wContent, wFoo \o extUasset>>, <<wContent, wBar \o extUasset>>,
     <<wContent, wMaps, wFoo \o extUmap>>, <<wContent, wMaps, wBar \o Upper(extUasset)>>}

\* The patterns tried: '/Game/Foo', '/Game/Maps/.*', '.*', '.*Bar$'
pFoo == nGameFoo

pMaps == sl \o wGame \o sl \o wMaps \o sl \o <<Dot, Star>>

pAny == <<Dot, Star>>

pBar == <<Dot, Star>> \o wBar \o <<Dollar>>

IncludeArgs == {NoArg, StrArg(pMaps), TupleArg(<<pMaps>>), TupleArg(<<pFoo, pMaps>>)}

ExcludeArgs == {NoArg, StrArg(pBar), TupleArg(<<pAny>>), TupleArg(<<pBar>>)}

ExtensionArgs == {StrArg(extUasset), TupleArg(<<extUasset, extUmap>>)}

TopPaths == {sl, sl \o wGame \o sl \o wMaps, sl \o wgame \o sl \o Lower(wMaps)}

ScanInit ==
    /\ cache = <<>>
    /\ max_count = MaxCount
    /\ keep_count = MaxCount - 1
    /\ mods = IniMods
    /\ pc = "idle"
    /\ cur = NoCall
    /\ mem = "none"
    /\ releases = 0
    /\ touched = <<>>
    /\ last = NoOp
    /\ nm = NoName
    /\ sel = NoSel
    /\ fs = NoFs
    /\ geo = NoGeo
    /\ \E toppath \in TopPaths, include \in IncludeArgs, exclude \in ExcludeArgs, extension \in ExtensionArgs, invert \in BOOLEAN :
         scan = [stage |-> "called", disk |-> ScanDisk, toppath |-> toppath, include |-> include, exclude |-> exclude,
                 extension |-> extension, invert |-> invert, todo |-> {}, seen |-> {}, yielded |-> {}, err |-> ""]
    /\ px = NoPx
    /\ dc = NoDc
    /\ cf = NoCf
    /\ cls = NoCls
    /\ ex = NoEx

ScanFrame == UNCHANGED <<cache, max_count, keep_count, mods, pc, cur, mem, releases, touched, last, nm, sel, fs, geo, px, dc, cf, cls, ex>>

\* Lines 400-406: the arguments, toppath, and the start of os.walk
ScanStart ==
    /\ scan.stage = "called"
    /\ \E top \in scan_top(scan.toppath, scan.disk, mods) :
         scan' = IF top.err # "" THEN [scan EXCEPT !.stage = "raised", !.err = top.err]
                 ELSE IF top.res.none THEN [scan EXCEPT !.stage = "raised", !.err = "TypeError"]
                 ELSE [scan EXCEPT !.stage = "walking", !.todo = {f \in scan.disk : IsPrefix(top.res.val, f)}]
    /\ ScanFrame

\* Lines 407-437: the next file of the walk, in the order the file system gives
ScanFile ==
    /\ scan.stage = "walking"
    /\ \E file \in scan.todo :
         LET r == scan_file(file, scan.include, scan.exclude, scan.extension, scan.invert, mods)
         IN  scan' = IF r.err # "" THEN [scan EXCEPT !.stage = "raised", !.err = r.err]
                     ELSE [scan EXCEPT !.todo = @ \ {file},
                                       !.seen = IF r.skip THEN @ ELSE @ \cup {r.name},
                                       !.yielded = IF r.yield THEN @ \cup {r.name} ELSE @]
    /\ ScanFrame

\* The walk is exhausted: the generator returns
ScanEnd ==
    /\ scan.stage = "walking"
    /\ scan.todo = {}
    /\ scan' = [scan EXCEPT !.stage = "done"]
    /\ ScanFrame

ScanNext == ScanStart \/ ScanFile \/ ScanEnd

ScanSpec == ScanInit /\ [][ScanNext]_vars

(***************************************************************************)
(* SpeciesDiscoverer: discover_vanilla_species, discover_mod_species and   *)
(* _filter_species with ByRawData.is_species and ByInheritance.is_species. *)
(* What the loads, the inheritance tests and the walk over the parents     *)
(* give is drawn from the outcomes they can have.                          *)
(***************************************************************************)
\* find_assetnames(self, toppath='/', *, include, exclude, ...): the call binds when at
\* most one argument is positional
binds_find_assetnames(positional) == positional <= 1

\* Names given to _filter_species: '/Game/Foo', '/Game/Mods/beta/Bar', '/Script/Foo'
wScript == <<"S","c","r","i","p","t">>

SpeciesCandidates == {nGameFoo, sl \o wGame \o sl \o wMods \o sl \o wbeta \o sl \o wBar, sl \o wScript \o sl \o wFoo}

\* What load_raw_asset and loader[assetname] can end with (C15, C17)
LoadOutcomes == {"ok", "AssetNotFound", "AssetParseError"}

NoFilter == [stage |-> "idle", op |-> "", assetname |-> <<>>, raised |-> "", at |-> "", result |-> FALSE, err |-> "", warnings |-> 0, log |-> <<>>]

DiscInit ==
    /\ cache = <<>>
    /\ max_count = MaxCount
    /\ keep_count = MaxCount - 1
    /\ mods = IniMods
    /\ pc = "idle"
    /\ cur = NoCall
    /\ mem = "none"
    /\ releases = 0
    /\ touched = <<>>
    /\ last = NoOp
    /\ nm = NoName
    /\ sel = NoSel
    /\ fs = NoFs
    /\ geo = NoGeo
    /\ scan = NoFilter
    /\ px = NoPx
    /\ dc = NoDc
    /\ cf = NoCf
    /\ cls = NoCls
    /\ ex = NoEx

\* _filter_species returns or raises: the outcome is logged with the load of the
\* candidate that raised, if one did, and where
Filtered(result, err, raised, at) ==
    [scan EXCEPT !.stage = "idle", !.result = result, !.err = err, !.raised = raised, !.at = at,
                 !.log = Append(@, [assetname |-> scan.assetname, result |-> result, err |-> err, raised |-> raised, at |-> at])]

\* discover_vanilla_species (lines 128-140) and discover_mod_species (142-146), up to
\* the first call of find_assetnames('.*', <toppath>, exclude=...)
Discover(op) ==
    /\ scan.stage = "idle"
    /\ Len(scan.log) < MaxScan
    /\ scan' = IF binds_find_assetnames(2)
               THEN [scan EXCEPT !.stage = "scanning", !.op = op]
               ELSE [scan EXCEPT !.op = op, !.assetname = <<>>, !.raised = "", !.at = "", !.result = FALSE, !.err = "TypeError",
                                 !.log = Append(@, [assetname |-> <<>>, result |-> FALSE, err |-> "TypeError", raised |-> "", at |-> op])]
    /\ ScanFrame

\* _filter_species(assetname), line 126, for the next candidate
FilterSpecies(assetname) ==
    /\ scan.stage \in {"idle", "scanning"}
    /\ Len(scan.log) < MaxScan
    /\ scan' = [scan EXCEPT !.stage = "raw", !.op = "_filter_species", !.assetname = assetname, !.raised = "", !.at = "", !.result = FALSE, !.err = "", !.warnings = 0]
    /\ ScanFrame

\* ByRawData.is_species, lines 28-36: load_raw_asset, then the marker test
RawIsSpecies(outcome, marker) ==
    /\ scan.stage = "raw"
    /\ scan' = IF outcome = "AssetNotFound" THEN Filtered(FALSE, outcome, outcome, "load_raw_asset")
               ELSE IF ~marker THEN Filtered(FALSE, "", "", "")
               ELSE [scan EXCEPT !.stage = "load"]
    /\ ScanFrame

\* ByInheritance.is_species, lines 69-72: the name test and asset = self.loader[assetname]
LoadCandidate(outcome) ==
    /\ scan.stage = "load"
    /\ scan' = IF ~StartsWith(scan.assetname, sl \o wGame) THEN Filtered(FALSE, "", "", "")
               ELSE IF outcome # "ok" THEN Filtered(FALSE, outcome, outcome, "loader[assetname]")
               ELSE [scan EXCEPT !.stage = "inherits"]
    /\ ScanFrame

\* Lines 75-76: inherits_from(asset, CHR_PKG)
InheritsFromCharacter(inherits) ==
    /\ scan.stage = "inherits"
    /\ scan' = IF ~inherits THEN Filtered(FALSE, "", "", "") ELSE [scan EXCEPT !.stage = "component"]
    /\ ScanFrame

\* Lines 79-99: check_component(assetname); a load that fails inside it is caught at
\* line 93, logged, and counts as no component
CheckComponent(outcome, found) ==
    /\ scan.stage = "component"
    /\ scan' = IF outcome # "ok" THEN [scan EXCEPT !.stage = "parents", !.warnings = @ + 1, !.raised = outcome, !.at = "check_component"]
               ELSE IF found THEN Filtered(TRUE, "", "", "")
               ELSE [scan EXCEPT !.stage = "parents"]
    /\ ScanFrame

\* Lines 102-104: found_dcsc = walk_parents(asset, check_component)
WalkParents(found_dcsc) ==
    /\ scan.stage = "parents"
    /\ scan' = Filtered(found_dcsc, "", scan.raised, scan.at)
    /\ ScanFrame

DiscNext ==
    \/ \E op \in {"discover_vanilla_species", "discover_mod_species"} : Discover(op)
    \/ \E assetname \in SpeciesCandidates : FilterSpecies(assetname)
    \/ \E outcome \in {"ok", "AssetNotFound"}, marker \in BOOLEAN : RawIsSpecies(outcome, marker)
    \/ \E outcome \in LoadOutcomes : LoadCandidate(outcome)
    \/ \E inherits \in BOOLEAN : InheritsFromCharacter(inherits)
    \/ \E outcome \in LoadOutcomes, found \in BOOLEAN : CheckComponent(outcome, found)
    \/ \E found_dcsc \in BOOLEAN : WalkParents(found_dcsc)

DiscSpec == DiscInit /\ [][DiscNext]_vars

(***************************************************************************)
(* UEProxyStructure and proxy_for_type.  Dicts are objects: heap[id] is    *)
(* the index-to-value content of the dict with that id, so that two names  *)
(* holding the same dict are told apart from two names holding equal       *)
(* dicts.  A class or an instance is its fields, <<name, id>> in insertion *)
(* order.                                                                  *)
(***************************************************************************)
Underscore == "_"

FieldNamed(fields, name) == {i \in 1..Len(fields) : fields[i][1] = name}

\* name in target_dict
HasField(fields, name) == FieldNamed(fields, name) # {}

\* target_dict[name]
FieldId(fields, name) == fields[CHOOSE i \in FieldNamed(fields, name) : TRUE][2]

\* __init_subclass__, lines 41-51: the entries of the class body whose name does not
\* start with '_' become the defaults
class_fields(class_dict) == SelectSeq(class_dict, LAMBDA e : ~StartsWith(e[1], <<Underscore>>))

\* __init_subclass__, lines 35-39 and _register_proxy: the registry after a class
\* statement: [err, proxies]
init_subclass(proxies, uetype, class_dict) ==
    IF uetype = "" THEN [err |-> "ValueError", proxies |-> proxies]
    ELSE [err |-> "", proxies |-> (uetype :> class_fields(class_dict)) @@ proxies]

\* __init__, line 56: value = {**default}, a new dict with the entries of the default
\* (alternative defined first: the default dict itself is used)
new_value_aliased(heap, default) == [heap |-> heap, id |-> default]

new_value(heap, default) == [heap |-> Append(heap, heap[default]), id |-> Len(heap) + 1]

\* __init__, lines 54-57, from field i on: [heap, fields]
\* (alternative defined first: no field is set)
RECURSIVE proxy_init_unseeded(_, _, _)
proxy_init_unseeded(heap, fields, i) == [heap |-> heap, fields |-> <<>>]

RECURSIVE proxy_init(_, _, _)
proxy_init(heap, fields, i) ==
    IF i > Len(fields) THEN [heap |-> heap, fields |-> <<>>]
    ELSE LET value == new_value(heap, fields[i][2])
             rest == proxy_init(value.heap, fields, i + 1)
         IN  [heap |-> rest.heap, fields |-> <<<<fields[i][1], value.id>>>> \o rest.fields]

\* update, lines 65-66: for i, value in field_values.items(): target_field[i] = value
\* (alternative defined first: the field is replaced by the overrides)
merge_field_replacing(target_field, field_values) == field_values

merge_field(target_field, field_values) == field_values @@ target_field

\* update, lines 60-66, from entry i of values on: [heap, fields]
RECURSIVE update(_, _, _, _)
update(heap, fields, values, i) ==
    IF i > Len(values) THEN [heap |-> heap, fields |-> fields]
    ELSE LET name == values[i][1]
             has == HasField(fields, name)
             heap1 == IF has THEN heap ELSE Append(heap, <<>>)
             fields1 == IF has THEN fields ELSE Append(fields, <<name, Len(heap) + 1>>)
             id == FieldId(fields1, name)
         IN  update([heap1 EXCEPT ![id] = merge_field(@, values[i][2])], fields1, values, i + 1)

\* proxy_for_type, lines 77-82: [none, heap, fields]
proxy_for_type(proxies, heap, uetype) ==
    IF uetype \notin DOMAIN proxies THEN [none |-> TRUE, heap |-> heap, fields |-> <<>>]
    ELSE LET proxy == proxy_init(heap, proxies[uetype], 1)
         IN  [none |-> FALSE, heap |-> proxy.heap, fields |-> proxy.fields]

\* The proxy classes declared: 'Dino' with hp = {0: 10, 1: 11}, sp = {0: 20} and a
\* private _k, 'Item' with hp = {0: 30}; 'Rock' is not declared
fHp == <<"h","p">>

fSp == <<"s","p">>

fPrivate == <<Underscore, "k">>

fExtra == <<"x">>

DeclaredHeap == <<(0 :> 10) @@ (1 :> 11), (0 :> 20), (0 :> 7), (0 :> 30)>>

DeclaredClasses == << <<"Dino", <<<<fHp, 1>>, <<fSp, 2>>, <<fPrivate, 3>>>> >>, <<"Item", <<<<fHp, 4>>>> >> >>

UeTypes == {"Dino", "Item", "Rock"}

\* The registry after the class statements
RECURSIVE Registered(_)
Registered(n) ==
    IF n = 0 THEN <<>> ELSE init_subclass(Registered(n - 1), DeclaredClasses[n][1], DeclaredClasses[n][2]).proxies

\* The overrides given to update: {hp: {0: 99, 2: 98}}, {x: {}} and
\* {sp: {1: 97}, x: {0: 95}}
Overrides ==
    {<<<<fHp, (0 :> 99) @@ (2 :> 98)>>>>, <<<<fExtra, <<>>>>>>, <<<<fSp, (1 :> 97)>>, <<fExtra, (0 :> 95)>>>>}

\* No call of proxy_for_type yet; else its argument and the proxy returned (0: None)
NoProxyCall == [uetype |-> "", proxy |-> 0]

PxInit ==
    /\ cache = <<>>
    /\ max_count = MaxCount
    /\ keep_count = MaxCount - 1
    /\ mods = IniMods
    /\ pc = "idle"
    /\ cur = NoCall
    /\ mem = "none"
    /\ releases = 0
    /\ touched = <<>>
    /\ last = NoOp
    /\ nm = NoName
    /\ sel = NoSel
    /\ fs = NoFs
    /\ geo = NoGeo
    /\ scan = NoScan
    /\ px = [heap |-> DeclaredHeap, proxies |-> Registered(Len(DeclaredClasses)), instances |-> <<>>, last |-> NoProxyCall]
    /\ dc = NoDc
    /\ cf = NoCf
    /\ cls = NoCls
    /\ ex = NoEx

PxFrame == UNCHANGED <<cache, max_count, keep_count, mods, pc, cur, mem, releases, touched, last, nm, sel, fs, geo, scan, dc, cf, cls, ex>>

\* proxy = proxy_for_type(uetype); the caller keeps the proxy
ProxyForType(uetype) ==
    /\ uetype \in DOMAIN px.proxies => Len(px.instances) < MaxProxies
    /\ LET r == proxy_for_type(px.proxies, px.heap, uetype)
       IN  px' = IF r.none THEN [px EXCEPT !.last = [uetype |-> uetype, proxy |-> 0]]
                 ELSE [px EXCEPT !.heap = r.heap,
                                 !.instances = Append(@, [uetype |-> uetype, fields |-> r.fields]),
                                 !.last = [uetype |-> uetype, proxy |-> Len(px.instances) + 1]]
    /\ PxFrame

\* proxy.update(values) on a proxy the caller holds
Update(proxy, values) ==
    /\ proxy \in 1..Len(px.instances)
    /\ LET r == update(px.heap, px.instances[proxy].fields, values, 1)
       IN  px' = [px EXCEPT !.heap = r.heap,
                            !.instances[proxy].fields = r.fields]
    /\ PxFrame

PxNext ==
    \/ \E uetype \in UeTypes : ProxyForType(uetype)
    \/ \E proxy \in 1..MaxProxies, values \in Overrides : Update(proxy, values)

PxSpec == PxInit /\ [][PxNext]_vars

(***************************************************************************)
(* DictCacheManager, and the two cache managers given the same calls       *)
(***************************************************************************)
\* DictCacheManager.lookup: self.cache.get(name, None)
Dict_lookup(c, name) == DictGet(c, name)

\* DictCacheManager.add: self.cache[name] = asset; an existing key keeps its place
Dict_add(c, name, asset) ==
    IF DictHas(c, name) THEN [i \in 1..Len(c) |-> IF c[i].name = name THEN Entry(name, asset) ELSE c[i]]
    ELSE DictInsert(c, name, asset)

\* DictCacheManager.remove: del self.cache[name]
Dict_remove(c, name) ==
    IF DictHas(c, name) THEN [err |-> "", cache |-> DictPop(c, name)] ELSE [err |-> "KeyError", cache |-> c]

\* DictCacheManager.wipe
\* (alternative defined first: the prefix is ignored)
Dict_wipe_all(c, prefix) == <<>>

Dict_wipe(c, prefix) == IF prefix = <<>> THEN <<>> ELSE SelectSeq(c, LAMBDA e : ~StartsWith(e.name, prefix))

\* get_count of either manager
get_count(c) == Len(c)

\* What a call gave: the value returned and the exception raised
Gave(val, err) == [val |-> val, err |-> err]

NoPolicyCall == [op |-> "", name |-> <<>>, asset |-> NoneAsset, usage |-> Gave(NoneAsset, ""), dict |-> Gave(NoneAsset, "")]

PolicyInit ==
    /\ cache = <<>>
    /\ max_count \in 1..MaxCount
    /\ keep_count \in 0..(max_count - 1)
    /\ mods = IniMods
    /\ pc = "idle"
    /\ cur = NoCall
    /\ mem = "none"
    /\ releases = 0
    /\ touched = <<>>
    /\ last = NoOp
    /\ nm = NoName
    /\ sel = NoSel
    /\ fs = NoFs
    /\ geo = NoGeo
    /\ scan = NoScan
    /\ px = NoPx
    /\ dc = [cache |-> <<>>, purged |-> FALSE, last |-> NoPolicyCall]
    /\ cf = NoCf
    /\ cls = NoCls
    /\ ex = NoEx

PolicyFrame == UNCHANGED <<max_count, keep_count, mods, pc, cur, mem, releases, touched, last, nm, sel, fs, geo, scan, px, cf, cls, ex>>

PolicyCall(op, name, asset, usage, dict) == [op |-> op, name |-> name, asset |-> asset, usage |-> usage, dict |-> dict]

\* lookup(name) on both managers
BothLookup(name) ==
    /\ cache' = UsageBased_lookup(cache, name)
    /\ dc' = [dc EXCEPT !.last = PolicyCall("lookup", name, NoneAsset, Gave(UsageBased_lookup_result(cache, name), ""), Gave(Dict_lookup(dc.cache, name), ""))]
    /\ PolicyFrame

\* add(name, asset) on both managers; purged records that the usage-based one has
\* reached max_count
BothAdd(name, ctx) ==
    /\ cache' = UsageBased_add(cache, name, Loaded(name, ctx), max_count, keep_count)
    /\ dc' = [dc EXCEPT !.cache = Dict_add(@, name, Loaded(name, ctx)),
                        !.purged = @ \/ purge_due(DictInsert(DictPop(cache, name), name, Loaded(name, ctx)), max_count),
                        !.last = PolicyCall("add", name, Loaded(name, ctx), Gave(NoneAsset, ""), Gave(NoneAsset, ""))]
    /\ PolicyFrame

\* remove(name) on both managers
BothRemove(name) ==
    /\ cache' = UsageBased_remove(cache, name)
    /\ dc' = [dc EXCEPT !.cache = Dict_remove(@, name).cache,
                        !.last = PolicyCall("remove", name, NoneAsset, Gave(NoneAsset, ""), Gave(NoneAsset, Dict_remove(dc.cache, name).err))]
    /\ PolicyFrame

\* wipe(prefix) on both managers
BothWipe(prefix) ==
    /\ cache' = UsageBased_wipe(cache, prefix)
    /\ dc' = [dc EXCEPT !.cache = Dict_wipe(@, prefix),
                        !.last = PolicyCall("wipe", prefix, NoneAsset, Gave(NoneAsset, ""), Gave(NoneAsset, ""))]
    /\ PolicyFrame

\* get_count() on both managers
BothGetCount ==
    /\ dc' = [dc EXCEPT !.last = PolicyCall("get_count", <<>>, NoneAsset, Gave(get_count(cache), ""), Gave(get_count(dc.cache), ""))]
    /\ UNCHANGED cache
    /\ PolicyFrame

PolicyNext ==
    \/ \E name \in Keys : BothLookup(name)
    \/ \E name \in Keys, ctx \in Contexts : BothAdd(name, ctx)
    \/ \E name \in Keys : BothRemove(name)
    \/ \E prefix \in Prefixes : BothWipe(prefix)
    \/ BothGetCount

PolicySpec == PolicyInit /\ [][PolicyNext]_vars

(***************************************************************************)
(* utils/cachefile.py: cache_data and its two files                        *)
(***************************************************************************)
PICKLE_PROTOCOL == 4

\* A key is a JSON object: a sequence of <<name, value>> members in dict order,
\* the values being single digits
DigitChar(d) == <<"0", "1", "2", "3", "4", "5", "6", "7", "8", "9">>[d + 1]

\* json.dumps(key, indent=None, separators=(',', ':'))
json_member(m) == <<"\"">> \o m[1] \o <<"\"", ":", DigitChar(m[2])>>

json_dumps(key) == <<"{">> \o Join([i \in 1..Len(key) |-> json_member(key[i])], ",") \o <<"}">>

\* hashlib.sha512(...).hexdigest(), taken as free of collisions: the digest stands
\* for the text digested
sha512_hexdigest(text) == <<"#">> \o text

\* _hash_from_object
hash_from_object(key) == <<"s", "h", "a", "5", "1", "2", ":">> \o sha512_hexdigest(json_dumps(key))

\* A file that is not there, a file of text, a pickle, and a file that cannot be unpickled
NoFile == [kind |-> "absent", text |-> <<>>, val |-> 0, protocol |-> 0]

TextFile(text) == [kind |-> "text", text |-> text, val |-> 0, protocol |-> 0]

\* pickle.dump(data, f_data, protocol=pickle_protocol)
pickle_dump(data, protocol) == [kind |-> "pickle", text |-> <<>>, val |-> data, protocol |-> protocol]

NotAPickle == [kind |-> "garbage", text |-> <<>>, val |-> 0, protocol |-> 0]

\* open(...) for reading
open_read(file) == IF file.kind = "absent" THEN [err |-> "IOError", file |-> file] ELSE [err |-> "", file |-> file]

\* pickle.load(f_data)
pickle_load(file) == IF file.kind = "pickle" THEN [err |-> "", val |-> file.val] ELSE [err |-> "PickleError", val |-> 0]

\* Lines 47-53: the hash found in the hash file
\* (alternative defined first: the hash file is read even when regeneration is forced)
existing_hash_always_read(hash_file, force_regenerate) ==
    IF open_read(hash_file).err = "" THEN Strip(hash_file.text, Whitespace) ELSE <<>>

existing_hash(hash_file, force_regenerate) ==
    IF ~force_regenerate /\ open_read(hash_file).err = "" THEN Strip(hash_file.text, Whitespace) ELSE <<>>

\* Lines 56-67: the cached data when the hashes match and the data file unpickles
reusable(key_hash, found_hash, data_file) ==
    key_hash = found_hash /\ open_read(data_file).err = "" /\ pickle_load(data_file).err = ""

\* Lines 73-83: what a write leaves of a file. open(..., 'wt') or open(..., 'wb') that
\* raises IOError leaves the file as it was; a write that fails on the way leaves a
\* file that cannot be read back; either way the exception is logged and swallowed
write_file(file, content, outcome) ==
    IF outcome = "written" THEN content
    ELSE IF outcome = "cut short" THEN NotAPickle
    ELSE file

\* cache_data(key, filename, generator_fn, force_regenerate) on the two files, with
\* generated the value generator_fn returns when it is called and with the outcome
\* of each of the two writes
cache_data_io(key, hash_file, data_file, generated, force_regenerate, hash_write, data_write) ==
    LET key_hash == hash_from_object(key)
        found_hash == existing_hash(hash_file, force_regenerate)
    IN  IF reusable(key_hash, found_hash, data_file)
        THEN [ret |-> pickle_load(data_file).val, generator_calls |-> <<>>, hash_file |-> hash_file, data_file |-> data_file]
        ELSE [ret |-> generated, generator_calls |-> <<key>>,
              hash_file |-> write_file(hash_file, TextFile(key_hash), hash_write),
              data_file |-> write_file(data_file, pickle_dump(generated, PICKLE_PROTOCOL), data_write)]

\* cache_data where both files can be written
cache_data(key, hash_file, data_file, generated, force_regenerate) ==
    cache_data_io(key, hash_file, data_file, generated, force_regenerate, "written", "written")

\* The keys, data values and files tried
kV == <<"v">>

kM == <<"m">>

CacheKeys == { << <<kV, 1>> >>, << <<kV, 2>> >>, << <<kV, 1>>, <<kM, 1>> >>, << <<kM, 1>>, <<kV, 1>> >> }

Generated == 1..MaxData

HashFiles == {NoFile, TextFile(<<>>)} \cup {TextFile(hash_from_object(k)) : k \in CacheKeys}
                 \cup {TextFile(hash_from_object(k) \o <<"\n">>) : k \in CacheKeys}

DataFiles == {NoFile, NotAPickle} \cup {pickle_dump(d, PICKLE_PROTOCOL) : d \in Generated}

NoCacheCall == [key |-> <<>>, force_regenerate |-> FALSE, ret |-> 0, generated |-> 0, generator_calls |-> <<>>,
                hash_file |-> NoFile, data_file |-> NoFile]

CfInit ==
    /\ cache = <<>>
    /\ max_count = MaxCount
    /\ keep_count = 0
    /\ mods = IniMods
    /\ pc = "idle"
    /\ cur = NoCall
    /\ mem = "none"
    /\ releases = 0
    /\ touched = <<>>
    /\ last = NoOp
    /\ nm = NoName
    /\ sel = NoSel
    /\ fs = NoFs
    /\ geo = NoGeo
    /\ scan = NoScan
    /\ px = NoPx
    /\ dc = NoDc
    /\ \E h \in HashFiles, d \in DataFiles : cf = [stage |-> "idle", hash_file |-> h, data_file |-> d, last |-> NoCacheCall]
    /\ cls = NoCls
    /\ ex = NoEx

CfFrame == UNCHANGED <<cache, max_count, keep_count, mods, pc, cur, mem, releases, touched, last, nm, sel, fs, geo, scan, px, dc, cls, ex>>

\* One call of cache_data; last keeps the arguments, the files found, the value
\* returned and the calls made of the generator
CacheData(key, generated, force_regenerate) ==
    LET r == cache_data(key, cf.hash_file, cf.data_file, generated, force_regenerate)
    IN  /\ cf' = [stage |-> "idle", hash_file |-> r.hash_file, data_file |-> r.data_file,
                  last |-> [key |-> key, force_regenerate |-> force_regenerate, ret |-> r.ret, generated |-> generated,
                            generator_calls |-> r.generator_calls, hash_file |-> cf.hash_file, data_file |-> cf.data_file]]
        /\ CfFrame

CfNext == \E key \in CacheKeys, generated \in Generated, force_regenerate \in BOOLEAN : CacheData(key, generated, force_regenerate)

CfSpec == CfInit /\ [][CfNext]_vars

(***************************************************************************)
(* AssetLoader.load_class                                                  *)
(***************************************************************************)
\* fallback: the NO_FALLBACK sentinel, None, or a value of the caller's
NO_FALLBACK == "NO_FALLBACK"

Fallbacks == {NO_FALLBACK, "None", "caller's value"}

\* for export in asset.exports: if str(export.name) == cls_name: return export --
\* the index of the export returned (0 when the loop ends without a return)
\* (alternative defined first: the last export of that name)
find_export_last(exports, cls_name) ==
    IF \E i \in 1..Len(exports) : exports[i].name = cls_name
    THEN CHOOSE i \in 1..Len(exports) : exports[i].name = cls_name /\ \A j \in (i + 1)..Len(exports) : exports[j].name # cls_name
    ELSE 0

find_export(exports, cls_name) ==
    IF \E i \in 1..Len(exports) : exports[i].name = cls_name
    THEN CHOOSE i \in 1..Len(exports) : exports[i].name = cls_name /\ \A j \in 1..(i - 1) : exports[j].name # cls_name
    ELSE 0

\* What load_class gives: an export of the container (by index), the fallback, or
\* an exception
NoClassResult == [export |-> 0, fallback |-> "", err |-> ""]

\* Lines 456-463, on the container load_asset returned
class_result(asset, cls_name, fallback) ==
    LET found == find_export(ExportsOf(LeafName(asset.assetname)), cls_name)
    IN  IF found # 0 THEN [export |-> found, fallback |-> "", err |-> ""]
        ELSE IF fallback # NO_FALLBACK THEN [export |-> 0, fallback |-> fallback, err |-> ""]
        ELSE [export |-> 0, fallback |-> "", err |-> "ExportNotFound"]

\* The names load_class is called with
wLowerFoo == <<"f","o","o">>

FullNames == {nGameFoo \o <<Dot>> \o wFoo, nGameFoo \o <<Dot>> \o wLowerFoo, nGameFoo \o <<Dot>> \o wDefaultPrefix \o wFoo,
              nGameFoo \o <<Dot>> \o wBar, nMod2Bar \o <<Dot>> \o wBar, nMod2Bar \o <<Dot>> \o wFoo,
              nMod9Foo \o <<Dot>> \o wFoo, nGameFoo, nGameFoo \o <<Dot>> \o wFoo \o <<Dot>> \o wFoo}

ClsCall(stage, assetname, cls_name, fallback, asset, result) ==
    [stage |-> stage, assetname |-> assetname, cls_name |-> cls_name, fallback |-> fallback, asset |-> asset, result |-> result]

ClsInit ==
    /\ cache = <<>>
    /\ max_count \in 1..MaxCount
    /\ keep_count \in 0..(max_count - 1)
    /\ mods = IniMods
    /\ pc = "idle"
    /\ cur = NoCall
    /\ mem = "none"
    /\ releases = 0
    /\ touched = <<>>
    /\ last = NoOp
    /\ nm = NoName
    /\ sel = NoSel
    /\ fs = NoFs
    /\ geo = NoGeo
    /\ scan = NoScan
    /\ px = NoPx
    /\ dc = NoDc
    /\ cf = NoCf
    /\ cls = ClsCall("idle", <<>>, <<>>, "", NoneAsset, NoClassResult)
    /\ ex = NoEx

ClsFrame == UNCHANGED <<cache, max_count, keep_count, mods, pc, cur, mem, releases, touched, nm, sel, fs, geo, scan, px, dc, cf, ex>>

\* load_class, lines 453-454: (assetname, cls_name) = fullname.split('.') and
\* assetname = self.clean_asset_name(assetname)
LoadClassCall(fullname, fallback) ==
    /\ pc = "idle"
    /\ cls.stage # "load"
    /\ \E parts \in {Split(fullname, Dot)} :
         IF Len(parts) # 2
         THEN cls' = ClsCall("done", <<>>, <<>>, fallback, NoneAsset, [NoClassResult EXCEPT !.err = "ValueError"])
         ELSE \E cleaned \in {clean_asset_name(parts[1], mods)} :
              IF cleaned.err # ""
              THEN cls' = ClsCall("done", <<>>, parts[2], fallback, NoneAsset, [NoClassResult EXCEPT !.err = cleaned.err])
              ELSE cls' = ClsCall("load", cleaned.val, parts[2], fallback, NoneAsset, NoClassResult)
    /\ last' = NoOp
    /\ ClsFrame

\* line 455: asset = self.load_asset(assetname, quiet=quiet), under the context in force
LoadClassLoadAsset(ctx) ==
    /\ cls.stage = "load"
    /\ last = NoOp
    /\ LoadAsset(cls.assetname, clean_asset_name(cls.assetname, mods), TRUE, TRUE, ctx)

\* lines 456-463, once load_asset has returned or raised
LoadClassReturn ==
    /\ pc = "idle"
    /\ cls.stage = "load"
    /\ last.op = "load_asset"
    /\ cls' = [cls EXCEPT !.stage = "done",
                          !.asset = last.res,
                          !.result = IF last.err # "" THEN [NoClassResult EXCEPT !.err = last.err]
                                     ELSE class_result(last.res, cls.cls_name, cls.fallback)]
    /\ UNCHANGED last
    /\ ClsFrame

ClsNext ==
    \/ \E fullname \in FullNames, fallback \in Fallbacks : LoadClassCall(fullname, fallback)
    \/ \E ctx \in Contexts : LoadClassLoadAsset(ctx)
    \/ \E has \in SUBSET {extUasset, extUmap} : LoadRaw(has)
    \/ \E ok \in BOOLEAN : Deserialise(ok)
    \/ \E ok \in BOOLEAN : Link(ok)
    \/ Finally
    \/ SelectDefault
    \/ CacheResult
    \/ LoadClassReturn

ClsSpec == ClsInit /\ [][ClsNext]_vars

(***************************************************************************)
(* automate/export_wiki.py: Exporter.perform                               *)
(***************************************************************************)
wAlphaX == wAlpha \o <<"X">>

\* mods.ini with a mod whose name begins with the name of another
IniModsExport == <<<< <<"1">>, wAlpha >>, << <<"3">>, wAlphaX >>>>

\* What self.modids may hold: an id, a name, an alias
ModIds == {<<"1">>, wAlpha, wAlly, <<"3">>}

nGameMods == sl \o wGame \o sl \o wMods \o sl

\* f'/Game/Mods/{modid}/{map_name}'
level_name(modid) == nGameMods \o modid \o sl \o wFoo

\* Assets a level refers to: of the game, of the mod itself (under its name and under
\* its alias) and of another mod
ReferredNames == {nGameFoo, nGameMods \o wAlpha \o sl \o wBar, nGameMods \o wAlly \o sl \o wBar, nGameMods \o wAlphaX \o sl \o wBar}

\* perform, line 64: prefix = '/Game/Mods/' + self.loader.get_mod_name('/Game/Mods/' + modid)
\* (alternative defined first: the prefix made of modid as given)
mod_prefix_as_given(modid, m) == [val |-> nGameMods \o modid, err |-> ""]

mod_prefix(modid, m) ==
    LET name == get_mod_name(nGameMods \o modid, m)
    IN  IF name.err # "" THEN [val |-> <<>>, err |-> name.err]
        ELSE IF name.val.none THEN [val |-> <<>>, err |-> "TypeError"]
        ELSE [val |-> nGameMods \o name.val.val, err |-> ""]

\* self.loader[asset_name] that succeeds: the cache after load_asset
cache_after_load(c, cleaned, maxc, keepc) ==
    IF Truthy(ContextAware_lookup_result(c, cleaned, "full")) THEN UsageBased_lookup(c, cleaned)
    ELSE UsageBased_add(UsageBased_lookup(c, cleaned), cleaned, Loaded(cleaned, "full"), maxc, keepc)

ExState(stage, todo, modid, prefix, loads, err) ==
    [stage |-> stage, todo |-> todo, modid |-> modid, prefix |-> prefix, loads |-> loads, wiped |-> 0, err |-> err]

ExInit ==
    /\ cache = <<>>
    /\ max_count = MaxCount + 1
    /\ keep_count = MaxCount
    /\ mods = IniModsExport
    /\ pc = "idle"
    /\ cur = NoCall
    /\ mem = "none"
    /\ releases = 0
    /\ touched = <<>>
    /\ last = NoOp
    /\ nm = NoName
    /\ sel = NoSel
    /\ fs = NoFs
    /\ geo = NoGeo
    /\ scan = NoScan
    /\ px = NoPx
    /\ dc = NoDc
    /\ cf = NoCf
    /\ cls = NoCls
    /\ \E modids \in SUBSET ModIds : modids # {} /\ ex = ExState("vanilla", modids, <<>>, <<>>, 0, "")

ExFrame == UNCHANGED <<max_count, keep_count, mods, pc, cur, mem, releases, touched, last, nm, sel, fs, geo, scan, px, dc, cf, cls>>

\* The loads made while a level is exported (lines 98-110 and what they call): one
\* self.loader[name]; a load that raises ends perform
ExLoad(raw, ok) ==
    /\ ex.stage \in {"vanilla", "mod"}
    /\ ex.loads < MaxLoads
    /\ raw \in (IF ex.stage = "vanilla" THEN {nGameFoo} ELSE {level_name(ex.modid)} \cup ReferredNames)
    /\ LET cleaned == clean_asset_name(raw, mods)
       IN  IF cleaned.err # "" \/ ~ok
           THEN /\ ex' = [ex EXCEPT !.stage = "raised", !.err = IF cleaned.err # "" THEN cleaned.err ELSE "AssetLoadException"]
                /\ UNCHANGED cache
           ELSE /\ cache' = cache_after_load(cache, cleaned.val, max_count, keep_count)
                /\ ex' = [ex EXCEPT !.loads = @ + 1]
    /\ ExFrame

\* _export_level, lines 104 and 110: del self.loader[asset_name]
ExDel(raw) ==
    /\ ex.stage \in {"vanilla", "mod"}
    /\ raw = (IF ex.stage = "vanilla" THEN nGameFoo ELSE level_name(ex.modid))
    /\ LET cleaned == clean_asset_name(raw, mods)
       IN  IF cleaned.err # ""
           THEN /\ ex' = [ex EXCEPT !.stage = "raised", !.err = cleaned.err]
                /\ UNCHANGED cache
           ELSE /\ DictHas(cache, cleaned.val)
                /\ cache' = UsageBased_remove(cache, cleaned.val)
                /\ UNCHANGED ex
    /\ ExFrame

\* perform, lines 59-61: the next mod of self.modids
ExBeginMod(modid) ==
    /\ ex.stage \in {"vanilla", "loop"}
    /\ modid \in ex.todo
    /\ ex' = ExState("mod", ex.todo \ {modid}, modid, <<>>, 0, "")
    /\ UNCHANGED cache
    /\ ExFrame

\* perform, lines 63-65: remove assets with this mod's prefix from the cache
ExWipe ==
    /\ ex.stage = "mod"
    /\ LET level == clean_asset_name(level_name(ex.modid), mods)
       IN  level.err = "" => ~DictHas(cache, level.val)
    /\ LET prefix == mod_prefix(ex.modid, mods)
       IN  IF prefix.err # ""
           THEN /\ ex' = [ex EXCEPT !.stage = "raised", !.err = prefix.err]
                /\ UNCHANGED cache
           ELSE /\ cache' = UsageBased_wipe(cache, prefix.val)
                /\ ex' = [ex EXCEPT !.stage = IF ex.todo = {} THEN "done" ELSE "loop", !.prefix = prefix.val, !.wiped = Len(cache) - Len(cache')]
    /\ ExFrame

ExNext ==
    \/ \E raw \in {nGameFoo} \cup {level_name(modid) : modid \in ModIds} \cup ReferredNames, ok \in BOOLEAN : ExLoad(raw, ok)
    \/ \E raw \in {nGameFoo} \cup {level_name(modid) : modid \in ModIds} : ExDel(raw)
    \/ \E modid \in ModIds : ExBeginMod(modid)
    \/ ExWipe

ExportSpec == ExInit /\ [][ExNext]_vars

(***************************************************************************)
(* cache_data called again and again on one file name, writes failing or not *)
(***************************************************************************)
IoKeys == { << <<kV, 1>> >>, << <<kV, 2>> >> }

WriteOutcomes == {"written", "cut short", "refused"}

IoInit ==
    /\ cache = <<>>
    /\ max_count = MaxCount
    /\ keep_count = 0
    /\ mods = IniMods
    /\ pc = "idle"
    /\ cur = NoCall
    /\ mem = "none"
    /\ releases = 0
    /\ touched = <<>>
    /\ last = NoOp
    /\ nm = NoName
    /\ sel = NoSel
    /\ fs = NoFs
    /\ geo = NoGeo
    /\ scan = NoScan
    /\ px = NoPx
    /\ dc = NoDc
    /\ cf = [stage |-> "idle", hash_file |-> NoFile, data_file |-> NoFile, key |-> <<>>, ret |-> 0, made |-> {}]
    /\ cls = NoCls
    /\ ex = NoEx

\* One call of cache_data; made keeps, as <<hash of the key, value>>, what the
\* generator has produced so far
CacheDataIo(key, generated, force_regenerate, hash_write, data_write) ==
    LET r == cache_data_io(key, cf.hash_file, cf.data_file, generated, force_regenerate, hash_write, data_write)
    IN  /\ cf' = [stage |-> "idle", hash_file |-> r.hash_file, data_file |-> r.data_file, key |-> key, ret |-> r.ret,
                  made |-> cf.made \cup {<<hash_from_object(r.generator_calls[i]), generated>> : i \in 1..Len(r.generator_calls)}]
        /\ UNCHANGED <<cache, max_count, keep_count, mods, pc, cur, mem, releases, touched, last, nm, sel, fs, geo, scan, px, dc, cls, ex>>

IoNext ==
    \E key \in IoKeys, generated \in Generated, force_regenerate \in BOOLEAN, hash_write \in WriteOutcomes, data_write \in WriteOutcomes :
        CacheDataIo(key, generated, force_regenerate, hash_write, data_write)

CfIoSpec == IoInit /\ [][IoNext]_vars

(***************************************************************************)
(* The cache manager holding values of either truth value                 *)
(***************************************************************************)
\* cache.add(name, asset) with a value whose truth value is False: add stores
\* whatever it is handed ("self.cache[name] = asset"), None included
AddFalsy(name) ==
    /\ pc = "idle"
    /\ LET inserted == DictInsert(DictPop(cache, name), name, NoneAsset)
       IN  /\ cache' = UsageBased_add(cache, name, NoneAsset, max_count, keep_count)
           /\ last' = Done("add", name, "full", NoneAsset, "", purge_due(inserted, max_count))
    /\ touched' = Touch(touched, name, cache')
    /\ UNCHANGED <<max_count, keep_count, mods, pc, cur, mem, releases, nm, sel, fs, geo, scan, px, dc, cf, cls, ex>>

StoreNext ==
    \/ \E name \in Keys, ctx \in Contexts : Add(name, ctx)
    \/ \E name \in Keys : AddFalsy(name)
    \/ \E name \in Keys, ctx \in Contexts : Lookup(name, ctx)

StoreSpec == Init /\ [][StoreNext]_vars

(***************************************************************************)
(* The loader with its name-resolving calls, under resolvers that leave    *)
(* some ids and names unregistered                                         *)
(***************************************************************************)
\* mods.ini [ids]: one mod
IniModsAlphaOnly == <<<< <<"1">>, wAlpha >>>>

ResolveMods == {IniMods, IniModsAlphaOnly}

ResolveNames == RawNames \cup {nModAlphaFoo, nModBetaBar}

ResolveInit ==
    /\ cache = <<>>
    /\ max_count = MaxCount
    /\ keep_count = MaxCount - 1
    /\ mods \in ResolveMods
    /\ pc = "idle"
    /\ cur = NoCall
    /\ mem = "none"
    /\ releases = 0
    /\ touched = <<>>
    /\ last = NoOp
    /\ nm = NoName
    /\ sel = NoSel
    /\ fs = NoFs
    /\ geo = NoGeo
    /\ Idle

\* A call that computes a value from a name and touches no state of the loader:
\* result is what it raises or returns, val the value returned as an Optional
Returned(op, name, result, val) ==
    /\ pc = "idle"
    /\ last' = [Done(op, name, "", NoneAsset, result.err, FALSE) EXCEPT !.val = IF result.err = "" THEN val ELSE None]
    /\ UNCHANGED <<cache, max_count, keep_count, mods, pc, cur, mem, releases, touched, nm, sel, fs, geo, scan, px, dc, cf, cls, ex>>

\* What each call computes for each resolver and name tried (evaluated once)
Resolved ==
    [m \in ResolveMods, name \in ResolveNames |->
        [clean_asset_name |-> clean_asset_name(name, m),
         convert_asset_name_to_path |-> convert_asset_name_to_path(name, FALSE, extUasset, m),
         get_mod_name |-> get_mod_name(name, m),
         get_mod_id |-> get_mod_id(name, m)]]

CleanAssetName(name) ==
    LET result == Resolved[mods, name].clean_asset_name
    IN  Returned("clean_asset_name", name, result, Some(result.val))

\* the path is recorded joined with '/'
ConvertAssetNameToPath(name) ==
    LET result == Resolved[mods, name].convert_asset_name_to_path
    IN  Returned("convert_asset_name_to_path", name, result, Some(Join(result.val, Slash)))

GetModName(name) ==
    LET result == Resolved[mods, name].get_mod_name
    IN  Returned("get_mod_name", name, result, result.val)

GetModId(name) ==
    LET result == Resolved[mods, name].get_mod_id
    IN  Returned("get_mod_id", name, result, result.val)

ResolveNext ==
    \/ LoadOnlyNext
    \/ \E name \in ResolveNames : CleanAssetName(name)
    \/ \E name \in ResolveNames : ConvertAssetNameToPath(name)
    \/ \E name \in ResolveNames : GetModName(name)
    \/ \E name \in ResolveNames : GetModId(name)

ResolveSpec == ResolveInit /\ [][ResolveNext]_vars

(***************************************************************************)
(* The name pipeline: clean_asset_name and convert_asset_name_to_path      *)
(* applied to an input name x and to a variant y of it                     *)
(***************************************************************************)
\* mods.ini with two mods whose names agree in lower case
IniModsSameName == <<<< <<"1">>, wAlpha >>, << <<"2">>, walpha >>>>

\* mods.ini with a mod whose name is a number
IniModsNumericName == <<<< <<"1">>, <<"7">> >>, << <<"2">>, wbeta >>>>

ModConfigs == {IniMods, IniModsSameName, IniModsNumericName}

nContentMod2Bar == wContent \o sl \o wmods \o sl \o <<"2">> \o sl \o wBar

InputNames == {nGameFoo, nMod1Foo, nMod9Foo, nContentMod2Bar}

classSuffix == <<Dot>> \o wFoo

NameInit ==
    /\ cache = <<>>
    /\ max_count = 1
    /\ keep_count = 0
    /\ mods \in ModConfigs
    /\ pc = "idle"
    /\ cur = NoCall
    /\ mem = "none"
    /\ releases = 0
    /\ touched = <<>>
    /\ last = NoOp
    /\ \E x \in InputNames : nm = [NoName EXCEPT !.stage = "input", !.x = x, !.y = x]
    /\ sel = NoSel
    /\ fs = NoFs
    /\ geo = NoGeo
    /\ Idle

NameFrame == UNCHANGED <<cache, max_count, keep_count, mods, pc, cur, mem, releases, touched, last, sel, fs, geo, scan, px, dc, cf, cls, ex>>

Varied(y, kind) == [nm EXCEPT !.y = y, !.n = @ + 1, !.kinds = @ \cup {kind}]

CanVary == nm.stage = "input" /\ nm.n < MaxVary

\* one separator written the other way
VarySeparator(i) ==
    /\ CanVary
    /\ nm.y[i] \in {Slash, Backslash}
    /\ nm' = Varied([nm.y EXCEPT ![i] = IF @ = Slash THEN Backslash ELSE Slash], "separator")
    /\ NameFrame

\* one more leading or trailing separator
VaryEnds(c, front) ==
    /\ CanVary
    /\ nm' = Varied(IF front THEN <<c>> \o nm.y ELSE nm.y \o <<c>>, "separator")
    /\ NameFrame

\* leading or trailing whitespace
VarySpace(front) ==
    /\ CanVary
    /\ nm' = Varied(IF front THEN <<" ">> \o nm.y ELSE nm.y \o <<" ">>, "space")
    /\ NameFrame

\* one letter in the other case
VaryCase(i) ==
    /\ CanVary
    /\ IsUpper(nm.y[i]) \/ IsLower(nm.y[i])
    /\ nm' = Varied([nm.y EXCEPT ![i] = IF IsUpper(@) THEN LowerChar(@) ELSE UpperChar(@)], "case")
    /\ NameFrame

\* a trailing class qualifier
VaryClass ==
    /\ CanVary
    /\ ~Contains(nm.y, Dot)
    /\ nm' = Varied(nm.y \o classSuffix, "class")
    /\ NameFrame

\* clean_asset_name(x) and clean_asset_name(y)
CleanNames ==
    /\ nm.stage = "input"
    /\ nm' = [nm EXCEPT !.stage = "cleaned", !.cx = clean_asset_name(nm.x, mods), !.cy = clean_asset_name(nm.y, mods)]
    /\ NameFrame

\* clean_asset_name(clean_asset_name(y))
CleanAgain ==
    /\ nm.stage = "cleaned"
    /\ nm.cy.err = ""
    /\ nm' = [nm EXCEPT !.stage = "recleaned", !.ccy = clean_asset_name(nm.cy.val, mods)]
    /\ NameFrame

\* convert_asset_name_to_path(clean_asset_name(y), check_exists=False)
ConvertName ==
    /\ nm.stage = "recleaned"
    /\ nm' = [nm EXCEPT !.stage = "converted", !.py = convert_asset_name_to_path(nm.cy.val, FALSE, extUasset, mods)]
    /\ NameFrame

\* clean_asset_name of that path, written with os.sep
CleanPath(sep) ==
    /\ nm.stage = "converted"
    /\ nm.py.err = ""
    /\ nm' = [nm EXCEPT !.stage = "roundtrip", !.cpy = clean_asset_name(Join(nm.py.val, sep), mods)]
    /\ NameFrame

NameNext ==
    \/ \E i \in 1..Len(nm.y) : VarySeparator(i)
    \/ \E c \in {Slash, Backslash}, front \in BOOLEAN : VaryEnds(c, front)
    \/ \E front \in BOOLEAN : VarySpace(front)
    \/ \E i \in 1..Len(nm.y) : VaryCase(i)
    \/ VaryClass
    \/ CleanNames
    \/ CleanAgain
    \/ ConvertName
    \/ \E sep \in {Slash, Backslash} : CleanPath(sep)

NameSpec == NameInit /\ [][NameNext]_vars

(***************************************************************************)
(* Default-export selection at the end of a successful full load, for any  *)
(* export table of up to MaxExports entries                                *)
(***************************************************************************)
ExportNames == {wDefaultPrefix \o wFoo, wDefaultPrefix \o wBar, wFoo, wfoo, wBar}

Namespaces == {"None", "Other"}

ExportKinds == {Export(n, ns) : n \in ExportNames, ns \in Namespaces}

ExportTables == UNION {[1..n -> ExportKinds] : n \in 0..MaxExports}

\* _load_asset has deserialised and linked the file of /Game/Foo and released the buffer
SelInit ==
    /\ cache = <<>>
    /\ max_count = MaxCount
    /\ keep_count = MaxCount - 1
    /\ mods = IniMods
    /\ pc = "idle"
    /\ cur = NoCall
    /\ mem = "none"
    /\ releases = 0
    /\ touched = <<>>
    /\ last = NoOp
    /\ nm = NoName
    /\ \E t \in ExportTables : sel = [NoSel EXCEPT !.stage = "linked", !.exports = t, !.leafname = LeafName(nGameFoo)]
    /\ fs = NoFs
    /\ geo = NoGeo
    /\ Idle

SelFrame == UNCHANGED <<max_count, keep_count, mods, pc, cur, mem, releases, last, nm, fs, geo, scan, px, dc, cf, cls, ex>>

\* _load_asset, lines 541-560: default-export selection on the table read
SelSelectDefault ==
    /\ sel.stage = "linked"
    /\ sel' = [sel EXCEPT !.stage = "selected",
                          !.default_export = select_default_export(sel.exports, sel.leafname),
                          !.warnings = select_warnings(sel.exports, sel.leafname)]
    /\ UNCHANGED <<cache, touched>>
    /\ SelFrame

\* _load_asset, lines 562-565: if cache_result: self.cache.add(assetname, asset); return asset
SelCacheResult(cache_result) ==
    /\ sel.stage = "selected"
    /\ sel' = [sel EXCEPT !.stage = "returned"]
    /\ cache' = IF cache_result
                THEN UsageBased_add(cache, nGameFoo, [Loaded(nGameFoo, "full") EXCEPT !.default_export = sel.default_export], max_count, keep_count)
                ELSE cache
    /\ touched' = IF cache_result THEN Touch(touched, nGameFoo, cache') ELSE touched
    /\ SelFrame

SelNext ==
    \/ SelSelectDefault
    \/ \E cache_result \in BOOLEAN : SelCacheResult(cache_result)

SelectSpec == SelInit /\ [][SelNext]_vars

(***************************************************************************)
(* Properties of the cache managers and of the loader (checked under Spec) *)
(***************************************************************************)
\* The name-to-container mapping of a cache, without its order
Mapping(c) == {<<c[i].name, c[i].asset>> : i \in 1..Len(c)}

\* The entries of a cache other than name's, in order
Others(c, name) == SelectSeq(c, LAMBDA e : e.name # name)

\* Position of name in a sequence of names (0 when absent)
Pos(t, name) == IF \E i \in 1..Len(t) : t[i] = name THEN CHOOSE i \in 1..Len(t) : t[i] = name ELSE 0

\* A step that is a completed call of the cache manager's lookup / add
LookupStep == pc = "idle" /\ pc' = "idle" /\ last'.op = "lookup"

AddStep == (pc = "idle" /\ pc' = "idle" /\ last'.op = "add") \/ (pc = "cache_add" /\ cur.cache_result)

\* C1: with keep_count < max_count, after any sequence of add, lookup, remove and
\* wipe calls the number of cached entries never exceeds max_count.
C1_CountNeverExceedsMax == keep_count < max_count => Len(cache) <= max_count

C1_Witness == last.op = "add" /\ last.purged /\ Len(cache) > 0 /\ keep_count < max_count

\* C2: when an add triggers a purge (the count reached max_count), the count right
\* after that add is exactly keep_count.
C2_PurgeLeavesKeepCount == (last.op \in {"add", "load_asset"} /\ last.purged) => Len(cache) = keep_count

C2_Witness == last.op = "load_asset" /\ last.purged /\ keep_count >= 1 /\ Len(cache) = keep_count

\* C3: a lookup of a cached name returns its container and moves that entry to the
\* most-recently-used end, leaving the order of the other entries unchanged; an add
\* of a name, new or cached, puts it at the most-recently-used end (the purge the add
\* may trigger removes entries from the other end only).
C3_TouchMovesToEnd ==
    [][/\ (LookupStep /\ DictHas(cache, last'.name)) =>
            /\ \E i \in 1..Len(cache) : cache[i] = Entry(last'.name, last'.inner)
            /\ Len(cache') = Len(cache)
            /\ cache'[Len(cache')] = Entry(last'.name, last'.inner)
            /\ Others(cache', last'.name) = Others(cache, last'.name)
       /\ (AddStep /\ cache' # <<>>) =>
            /\ cache'[Len(cache')] = Entry(last'.name, last'.res)
            /\ \E k \in 0..Len(cache) : Others(cache', last'.name) = SubSeq(Others(cache, last'.name), k + 1, Len(Others(cache, last'.name)))
      ]_vars

C3_Witness == last.op = "lookup" /\ Truthy(last.inner) /\ Len(cache) >= 2 /\ cache[Len(cache)].name = last.name

\* C4: whenever a purge evicts entries, every evicted entry was last touched (by a
\* lookup that found it or by an add) before every entry that survives.
C4_EvictsLeastRecentlyTouched ==
    [][(AddStep /\ last'.purged) =>
          LET order == Append(SelectSeq(touched, LAMBDA n : n # last'.name), last'.name)
              evicted == (KeySet(cache) \cup {last'.name}) \ KeySet(cache')
          IN  \A e \in evicted, s \in KeySet(cache') : Pos(order, e) < Pos(order, s)
      ]_vars

C4_Witness == last.purged /\ Len(cache) >= 2 /\ Len(cache) = keep_count /\ last.op = "add"

\* C5: a ContextAwareCacheWrapper.lookup made while the context requires full data
\* returns None for a name whose cached container is partial, although the wrapped
\* manager's lookup returned that container (which stays cached).
C5_PartialEntryMissesFullLookup ==
    (last.op = "lookup" /\ last.ctx = "full" /\ Truthy(last.inner) /\ last.inner.ctx = "partial") =>
        (last.res = NoneAsset /\ DictGet(cache, last.name) = last.inner)

C5_Witness == last.op = "lookup" /\ last.ctx = "full" /\ Truthy(last.inner) /\ last.inner.ctx = "partial" /\ last.res = NoneAsset

\* C6: when deserialise or link fails inside load_asset, the failed container is not
\* inserted: when the call ends the cache maps every name to the container it held
\* when the call began.
C6_FailedLoadLeavesCache ==
    [][(pc # "idle" /\ pc' = "idle" /\ cur.failed) => Mapping(cache') = Mapping(cur.pre)]_vars

C6_Witness == last.op = "load_asset" /\ last.err = "AssetParseError" /\ DictHas(cache, last.name)

\* C7: every _load_asset that obtains a raw buffer releases it exactly once before it
\* returns or raises (full load, doNotLink return, failure in deserialise or link),
\* and the release comes before default-export selection and the cache insert.
C7_BufferReleasedOnce ==
    /\ pc \in {"deserialise", "link", "finally"} => (mem = "held" /\ releases = 0)
    /\ pc \in {"select", "cache_add"} => (mem = "released" /\ releases = 1)
    /\ pc \in {"idle", "load_raw"} => (mem = "none" /\ releases = 0)
    /\ last.mem \in {"none", "released"}
    /\ last.releases = (IF last.mem = "released" THEN 1 ELSE 0)
    /\ last.err = "AssetParseError" => last.releases = 1
    /\ (last.op = "partially_load_asset" /\ last.err = "") => last.releases = 1

C7_Witness == last.op = "partially_load_asset" /\ last.err = "" /\ Truthy(last.res) /\ last.releases = 1 /\ last.mem = "released"

\* clean_asset_name of each name load_asset is called with, under the resolver of Spec
CleanedRaw == [raw \in RawNames |-> clean_asset_name(raw, IniMods)]

\* A step that is load_asset(raw, use_cache=True) for a name whose cleaned form is cached
CachedLoadStep(raw, cache_result, ctx) ==
    /\ pc = "idle"
    /\ last'.op = "load_asset" \/ cur'.op = "load_asset"
    /\ CleanedRaw[raw].err = ""
    /\ DictHas(cache, CleanedRaw[raw].val)
    /\ LoadAsset(raw, CleanedRaw[raw], TRUE, cache_result, ctx)

\* The call returned the cached container at once: no file read, no parse
ServedFromCache(raw) ==
    /\ pc' = "idle"
    /\ last'.op = "load_asset" /\ last'.err = "" /\ last'.releases = 0
    /\ last'.res = DictGet(cache, CleanedRaw[raw].val)
    /\ DictGet(cache', CleanedRaw[raw].val) = last'.res

\* C14: after load_asset has cached a container, a later load_asset with use_cache of
\* a name with the same cleaned form, the entry still being cached, returns the cached
\* container without reading or parsing the file again.
C14_CachedLoadServedFromCache ==
    [][\A raw \in RawNames, cache_result \in BOOLEAN, ctx \in Contexts :
          CachedLoadStep(raw, cache_result, ctx) => ServedFromCache(raw)]_vars

C14_Witness ==
    /\ last.op = "load_asset" /\ last.err = "" /\ last.releases = 0 /\ last.mem = "none"
    /\ Truthy(last.res) /\ last.res.parsed = "linked"
    /\ DictGet(cache, last.name) = last.res
    /\ Len(cache) >= 2

\* C15: a failure inside deserialise or link ends the call with an AssetParseError
\* naming the asset; AssetParseError, AssetNotFound, ExportNotFound and ModNotFound
\* are all kinds of AssetLoadException, and so is every exception a call ends with.
C15_ParseFailureIsAssetParseError ==
    [][/\ (pc # "idle" /\ pc' = "idle" /\ cur.failed) =>
            /\ last'.err = "AssetParseError"
            /\ last'.name = cur.assetname
            /\ last'.res = NoneAsset
       /\ last'.err # "" => IsKindOf(last'.err, "AssetLoadException")
       /\ \A e \in {"AssetParseError", "AssetNotFound", "ExportNotFound", "ModNotFound"} :
            IsKindOf(e, "AssetLoadException") /\ ~IsKindOf("AssetLoadException", e)
      ]_vars

C15_Witness ==
    /\ last.op = "load_asset" /\ last.err = "AssetParseError" /\ last.releases = 1
    /\ last.name = nGameFoo /\ ~DictHas(cache, nGameFoo) /\ cache # <<>>

(***************************************************************************)
(* Properties of name resolution (checked under ResolveSpec)               *)
(***************************************************************************)
\* The segments of a name written '/a/b/c/...': <<a, b, c, ...>>
Segments(name) == Tail(Split(name, Slash))

\* name is '/x/Mods/<id>/...' with a numeric id that no mod is registered under
UnregisteredId(name, m) ==
    /\ Len(name) > 0 /\ name[1] = Slash
    /\ Len(Segments(name)) > 2
    /\ Lower(Segments(name)[2]) = wmods
    /\ IsNumeric(Segments(name)[3])
    /\ \A i \in 1..Len(m) : m[i][1] # Segments(name)[3]

\* name is '/x/Mods/<name>/...' with a non-numeric name that no mod is registered with
UnregisteredName(name, m) ==
    /\ Len(name) > 0 /\ name[1] = Slash
    /\ Len(Segments(name)) > 2
    /\ Lower(Segments(name)[2]) = wmods
    /\ Segments(name)[3] # <<>> /\ ~IsNumeric(Segments(name)[3])
    /\ \A i \in 1..Len(m) : Lower(m[i][2]) # Lower(Segments(name)[3])

\* clean_asset_name of each name and resolver tried
CleanedUnder == [m \in ResolveMods, name \in ResolveNames |-> clean_asset_name(name, m)]

\* The names tried that have an unregistered id / an unregistered name, per resolver
WithUnregisteredId == [m \in ResolveMods |-> {name \in ResolveNames : UnregisteredId(name, m)}]

WithUnregisteredName == [m \in ResolveMods |-> {name \in ResolveNames : UnregisteredName(name, m)}]

NameCalls == {"clean_asset_name", "convert_asset_name_to_path", "get_mod_name", "get_mod_id"}

\* C16: for a name with an unregistered numeric mod id, clean_asset_name,
\* convert_asset_name_to_path, get_mod_name and get_mod_id raise ModNotFound and
\* return nothing, and load_asset raises ModNotFound at once, with no cache lookup, no
\* file read and the cache as it was; convert_asset_name_to_path raises ModNotFound
\* for a name with an unregistered non-numeric mod name.
C16_UnregisteredModRaises ==
    [][/\ (pc = "idle" /\ pc' = "idle" /\ last'.op \in NameCalls /\ last'.name \in WithUnregisteredId[mods]) =>
            (last'.err = "ModNotFound" /\ last'.val = None /\ cache' = cache)
       /\ (pc = "idle" /\ pc' = "idle" /\ last'.op = "convert_asset_name_to_path" /\ last'.name \in WithUnregisteredName[mods]) =>
            (last'.err = "ModNotFound" /\ last'.val = None /\ cache' = cache)
       /\ \A raw \in RawNames, use_cache \in BOOLEAN, cache_result \in BOOLEAN, ctx \in Contexts :
            (pc = "idle" /\ raw \in WithUnregisteredId[mods] /\ LoadAsset(raw, CleanedUnder[mods, raw], use_cache, cache_result, ctx)) =>
                /\ pc' = "idle" /\ mem' = "none"
                /\ last'.op = "load_asset" /\ last'.err = "ModNotFound" /\ last'.res = NoneAsset
                /\ cache' = cache /\ touched' = touched
      ]_vars

C16_Witness ==
    /\ last.op = "load_asset" /\ last.err = "ModNotFound" /\ last.name = nMod2Bar
    /\ mods = IniModsAlphaOnly /\ Len(cache) >= 2

(***************************************************************************)
(* Properties of the name pipeline (checked under NameSpec)                *)
(***************************************************************************)
CleanedTwice == nm.stage \in {"recleaned", "converted", "roundtrip"}

\* C8: clean_asset_name is idempotent: whenever clean_asset_name(y) succeeds,
\* clean_asset_name(clean_asset_name(y)) succeeds and equals it (stated for the
\* resolver with two distinctly named mods).
C8_CleanIsIdempotent == (CleanedTwice /\ mods = IniMods) => nm.ccy = nm.cy

\* C9: two names that differ only in class suffix, path-separator style (slash or
\* backslash, leading or trailing separators) or letter case clean to the same
\* AssetName (stated for the resolver with two distinctly named mods).
C9_VariantsCleanAlike ==
    (nm.stage # "input" /\ nm.kinds \subseteq {"separator", "class", "case"} /\ mods = IniMods /\ nm.cx.err = "" /\ nm.cy.err = "") => nm.cx.val = nm.cy.val

\* No mod name can be taken for an id or for another mod's name
ConsistentResolver(m) ==
    /\ \A i \in 1..Len(m) : m[i][2] # <<>> /\ ~IsNumeric(m[i][2])
    /\ \A i, j \in 1..Len(m) : i # j => Lower(m[i][2]) # Lower(m[j][2]) /\ m[i][1] # m[j][1]

ModPrefix(mod) == sl \o wGame \o sl \o wMods \o sl \o mod \o sl

\* One or more segments of letters and digits separated by single slashes
WellFormedTail(t) ==
    /\ Len(t) > 0
    /\ \A i \in 1..Len(t) : t[i] = Slash \/ t[i] \in Digits \/ IsUpper(t[i]) \/ IsLower(t[i])
    /\ t[1] # Slash /\ t[Len(t)] # Slash
    /\ \A i \in 1..(Len(t) - 1) : ~(t[i] = Slash /\ t[i + 1] = Slash)

\* The part of name after its first n characters and before its class qualifier
TailOf(name, n) == SubSeq(name, n + 1, IF Contains(name, Dot) THEN Index(name, Dot) - 1 ELSE Len(name))

\* name is '/Game/Mods/<id>/...', optionally followed by a class qualifier
IdAddressed(name, id) == StartsWith(name, ModPrefix(id)) /\ WellFormedTail(TailOf(name, Len(ModPrefix(id))))

\* C10: for a registered mod and a consistent resolver, clean_asset_name turns
\* '/Game/Mods/<id>/...' into the name-addressed form, convert_asset_name_to_path
\* turns that into a path whose mod segment is <id> again, and clean_asset_name of
\* that path gives the same name-addressed AssetName.
C10_ModIdRoundTrip ==
    \A i \in 1..Len(mods) :
        (ConsistentResolver(mods) /\ IdAddressed(nm.y, mods[i][1])) =>
            /\ nm.stage # "input" => nm.cy = Ok(ModPrefix(mods[i][2]) \o TailOf(nm.y, Len(ModPrefix(mods[i][1]))))
            /\ nm.stage \in {"converted", "roundtrip"} => (nm.py.err = "" /\ Len(nm.py.val) > 3 /\ nm.py.val[1] = wContent /\ nm.py.val[3] = mods[i][1])
            /\ nm.stage = "roundtrip" => nm.cpy = nm.cy

C10_Witness == nm.stage = "roundtrip" /\ ConsistentResolver(mods) /\ IdAddressed(nm.y, <<"1">>) /\ nm.py.val[3] = <<"1">> /\ nm.cpy = nm.cy /\ nm.cy.val # nm.y

(***************************************************************************)
(* Properties of the loader over an asset directory (checked under FsSpec) *)
(***************************************************************************)
\* A path resolves on a disk when some file is written like it, segment by segment,
\* up to the case of the letters
ResolvesToFile(disk, parts) ==
    \E f \in disk : Len(f) = Len(parts) /\ \A i \in 1..Len(f) : Lower(f[i]) = Lower(parts[i])

\* The normalized names of FsNames and their candidate paths, one per extension
FsCleaned == {clean_asset_name(raw, IniMods).val : raw \in FsNames}

Candidate == [name \in FsCleaned |-> [ext \in {extUasset, extUmap} |-> convert_asset_name_to_path(name, FALSE, ext, IniMods).val]]

CandidateResolves == [disk \in FsDisks |-> [name \in FsCleaned |-> [ext \in {extUasset, extUmap} |-> ResolvesToFile(disk, Candidate[name][ext])]]]

\* C17: load_asset raises AssetNotFound, and not AssetParseError, exactly when neither
\* the '.uasset' nor the '.umap' candidate path of the normalized name resolves to an
\* existing file; the '.uasset' candidate is tried first and is the one loaded when
\* both resolve; when AssetNotFound is raised the cache is as it was at the call
C17_NotFoundIffNoCandidate ==
    [][(pc = "load_raw" /\ pc' # "load_raw") =>
        LET uasset == CandidateResolves[fs.disk][cur.assetname][extUasset]
            umap == CandidateResolves[fs.disk][cur.assetname][extUmap]
        IN  /\ (pc' = "idle" /\ last'.err = "AssetNotFound") <=> (~uasset /\ ~umap)
            /\ pc' = "idle" => last'.err = "AssetNotFound"
            /\ uasset => (pc' = "deserialise" /\ fs'.ext = extUasset)
            /\ (~uasset /\ umap) => (pc' = "deserialise" /\ fs'.ext = extUmap)
            /\ pc' = "idle" => (cache' = cache /\ cache = cur.pre)]_vars

\* AssetNotFound was raised for a name while another asset was cached, after the
\* directory was searched for both candidates
C17_Witness ==
    /\ last.op = "load_asset"
    /\ last.err = "AssetNotFound"
    /\ cache # <<>>
    /\ Len(fs.calls) >= 2

\* A step in which find_caseinsensitive_path_match is called: on its own, or by
\* load_raw_asset through convert_asset_name_to_path
MatchStep ==
    \/ pc = "load_raw" /\ pc' # "load_raw"
    \/ pc = "idle" /\ pc' = "idle" /\ last'.op = "find_caseinsensitive_path_match"

\* C19: once a case-insensitive match for a path has resolved to an entry on disk, the
\* memo keeps that entry, and every later call for the same path returns it without
\* scanning the parent directory
C19_MatchServedFromMemo ==
    [][/\ \A p \in DOMAIN fs.memo : p \in DOMAIN fs'.memo /\ fs'.memo[p] = fs.memo[p]
       /\ MatchStep => \A i \in 1..Len(fs'.calls) :
            /\ fs'.calls[i].path \in DOMAIN fs.memo => (~fs'.calls[i].scanned /\ fs'.calls[i].res = Some(fs.memo[fs'.calls[i].path]))
            /\ fs'.calls[i].known => (~fs'.calls[i].scanned /\ fs'.calls[i].res = Some(fs'.memo[fs'.calls[i].path]))]_vars

\* A repeated query for 'Content' on a disk where the directory is written 'content':
\* answered from the memo with the entry as written on disk
C19_Witness ==
    /\ last.op = "find_caseinsensitive_path_match"
    /\ Len(fs.calls) = 1
    /\ fs.calls[1].known
    /\ fs.calls[1].path = <<wContent>>
    /\ fs.calls[1].res = Some(<<wcontent>>)

\* C20: after a call for a path has found no match, a later call for the same path
\* returns no match without scanning the parent directory
C20_MissServedFromMemo ==
    [][MatchStep => \A i \in 1..Len(fs'.calls) :
            fs'.calls[i].path \in fs.missed => (~fs'.calls[i].scanned /\ fs'.calls[i].res = None)]_vars

(***************************************************************************)
(* Properties of the instanced-geometry blob parser (checked under         *)
(* GeomSpec)                                                               *)
(***************************************************************************)
\* C18: when the struct size stored after the LOD sections is not 80, the parser
\* raises at the check, has extracted no instance and never sets visible_instances
C18_WrongStructSizeRaises ==
    (geo.stream.struct_size # ExpectedStructSize /\ geo.stage \in {"instances", "raised", "done"}) =>
        /\ geo.stage = "raised"
        /\ geo.err # ""
        /\ geo.instances = <<>>
        /\ geo.fields = <<>>
        /\ geo.offset < geo.stream.len \/ geo.stream.instances = <<>>

\* A blob with a LOD section and two stored instances whose struct size is not 80 has
\* been read up to the check
C18_Witness ==
    /\ geo.stage = "raised"
    /\ geo.stream.struct_size # ExpectedStructSize
    /\ Len(geo.stream.instances) = 2
    /\ geo.offset > 8

(***************************************************************************)
(* Properties of default-export selection (checked under SelectSpec)       *)
(***************************************************************************)
Selected == sel.stage \in {"selected", "returned"}

\* The top-level exports (no namespace) satisfying a test on the name, as a set of indices
TopDefault == {i \in 1..Len(sel.exports) : sel.exports[i].namespace = "None" /\ StartsWith(sel.exports[i].name, wDefaultPrefix)}

TopLeaf == {i \in 1..Len(sel.exports) : sel.exports[i].namespace = "None" /\ Lower(sel.exports[i].name) = Lower(sel.leafname)}

First(S) == CHOOSE i \in S : \A j \in S : i <= j

\* C11: when some export with no namespace has a name starting with 'Default__',
\* default_export is the first such export in table order, with a warning when more
\* than one matches; an export that has a namespace is never selected.
C11_DefaultPrefixedFirst ==
    Selected =>
        /\ TopDefault # {} => sel.default_export = First(TopDefault)
        /\ Cardinality(TopDefault) > 1 => sel.warnings = <<"more than one Default__ entry">>
        /\ sel.default_export # 0 => sel.exports[sel.default_export].namespace = "None"

C11_Witness ==
    /\ sel.stage = "returned"
    /\ Cardinality(TopDefault) > 1
    /\ sel.default_export = 2
    /\ sel.exports[1].namespace = "Other" /\ StartsWith(sel.exports[1].name, wDefaultPrefix)
    /\ sel.warnings # <<>>

\* C12: with no top-level 'Default__' export, exactly one top-level export named like
\* the asset (case-insensitively) is the default_export; with none, default_export is
\* absent, the load returns normally and the container is cached.
C12_LeafNamedFallback ==
    (Selected /\ TopDefault = {}) =>
        /\ Cardinality(TopLeaf) = 1 => sel.default_export = First(TopLeaf)
        /\ TopLeaf = {} => sel.default_export = 0
        /\ (TopLeaf = {} /\ sel.stage = "returned" /\ cache # <<>>) =>
                /\ DictHas(cache, nGameFoo)
                /\ DictGet(cache, nGameFoo).default_export = 0
                /\ DictGet(cache, nGameFoo).parsed = "linked"

C12_Witness ==
    /\ sel.stage = "returned"
    /\ TopDefault = {}
    /\ Cardinality(TopLeaf) = 1
    /\ sel.default_export = 2
    /\ sel.exports[2].name = wfoo
    /\ DictGet(cache, nGameFoo).default_export = 2

\* C13: with no top-level 'Default__' export and more than one top-level export named
\* like the asset, the ambiguity is logged and default_export is the first of them.
C13_AmbiguousLeafPicksFirst ==
    (Selected /\ TopDefault = {} /\ Cardinality(TopLeaf) > 1) =>
        /\ sel.warnings # <<>>
        /\ sel.default_export = First(TopLeaf)

(***************************************************************************)
(* Properties of find_assetnames (checked under ScanSpec)                  *)
(***************************************************************************)
\* The patterns an argument stands for: none, the one string, or the strings given
GivenPatterns(arg) == IF arg.kind = "str" THEN <<arg.val>> ELSE arg.val

MatchesSome(arg, assetname) == \E i \in 1..Len(GivenPatterns(arg)) : re_match(GivenPatterns(arg)[i], assetname)

\* C21: with invert off a candidate asset name is yielded exactly when it matches some
\* include pattern or matches no exclude pattern; with invert on exactly the other
\* candidates are yielded
C21_YieldedIffFilterAccepts ==
    scan.stage = "done" =>
        \A assetname \in scan.seen :
            (assetname \in scan.yielded) <=>
                ((MatchesSome(scan.include, assetname) \/ ~MatchesSome(scan.exclude, assetname)) # scan.invert)

(***************************************************************************)
(* Properties of the species scan (checked under DiscSpec)                 *)
(***************************************************************************)
\* C22: a candidate whose load raises AssetParseError or AssetNotFound is skipped
\* (not a species, nothing raised to the scan) and logged
C22_BadCandidateSkipped ==
    \A i \in 1..Len(scan.log) :
        scan.log[i].raised \in {"AssetParseError", "AssetNotFound"} => (scan.log[i].err = "" /\ ~scan.log[i].result)

(***************************************************************************)
(* Properties of the proxy classes (checked under PxSpec)                  *)
(***************************************************************************)
\* The defaults as declared in the class statements
DeclaredDefaults ==
    [uetype \in {"Dino", "Item"} |->
        IF uetype = "Dino" THEN (fHp :> ((0 :> 10) @@ (1 :> 11))) @@ (fSp :> (0 :> 20))
        ELSE (fHp :> (0 :> 30))]

\* What a class or an instance holds: for each field name, the content of its dict
Resolve(heap, fields) == [name \in {fields[i][1] : i \in 1..Len(fields)} |-> heap[FieldId(fields, name)]]

Ids(fields) == {fields[i][2] : i \in 1..Len(fields)}

\* The dicts reachable from the classes and from the proxies other than proxy k
IdsBut(p, k) ==
    UNION ({Ids(p.proxies[t]) : t \in DOMAIN p.proxies} \cup {Ids(p.instances[i].fields) : i \in (1..Len(p.instances)) \ {k}})

\* C23: proxy_for_type returns None for a type that was never registered; for a
\* registered type it returns a new proxy holding exactly the declared defaults of the
\* type, in dicts of its own
C23_ProxyHoldsDefaults ==
    [][\A uetype \in UeTypes : ProxyForType(uetype) =>
        IF uetype \notin DOMAIN DeclaredDefaults
        THEN px'.last.proxy = 0 /\ px'.instances = px.instances /\ px'.heap = px.heap
        ELSE LET new == Len(px.instances) + 1
             IN  /\ px'.last.proxy = new
                 /\ Len(px'.instances) = new
                 /\ SubSeq(px'.instances, 1, new - 1) = px.instances
                 /\ px'.instances[new].uetype = uetype
                 /\ Resolve(px'.heap, px'.instances[new].fields) = DeclaredDefaults[uetype]
                 /\ Ids(px'.instances[new].fields) \cap IdsBut(px', new) = {}]_vars

\* A second 'Dino' proxy was returned after the first had been updated
C23_Witness ==
    /\ px.last = [uetype |-> "Dino", proxy |-> 2]
    /\ px.instances[1].uetype = "Dino"
    /\ Resolve(px.heap, px.instances[1].fields) # DeclaredDefaults["Dino"]
    /\ Resolve(px.heap, px.instances[2].fields) = DeclaredDefaults["Dino"]

\* A step that creates or changes a dict; a step of update that does neither leaves
\* the whole state as it was
Written == px'.heap # px.heap

\* Every (property, index) of the defaults of its type is present in each proxy
DefaultsPresent(p) ==
    \A k \in 1..Len(p.instances) :
        LET held == Resolve(p.heap, p.instances[k].fields)
            defaults == DeclaredDefaults[p.instances[k].uetype]
        IN  \A name \in DOMAIN defaults : name \in DOMAIN held /\ DOMAIN defaults[name] \subseteq DOMAIN held[name]

\* The entries of values for a name that give an index, and the value update leaves
\* at that index: the one of the last such entry
Giving(values, name, i) == {e \in 1..Len(values) : values[e][1] = name /\ i \in DOMAIN values[e][2]}

LastGiven(values, name, i) == values[CHOOSE e \in Giving(values, name, i) : \A d \in Giving(values, name, i) : d <= e][2][i]

\* C24: every (property, index) of the defaults stays present in a proxy whatever the
\* updates; an update sets the indices given in its overrides to the values given,
\* creates the fields that were absent, and leaves every other index and field of the
\* proxy as it was
C24_UpdateMergesOverrides ==
    [][/\ Written => DefaultsPresent(px')
       /\ \A proxy \in 1..Len(px.instances), values \in Overrides : (Written /\ Update(proxy, values)) =>
            LET old == Resolve(px.heap, px.instances[proxy].fields)
                new == Resolve(px'.heap, px'.instances[proxy].fields)
            IN  /\ DOMAIN new = DOMAIN old \cup {values[e][1] : e \in 1..Len(values)}
                /\ \A name \in DOMAIN new :
                     LET before == IF name \in DOMAIN old THEN old[name] ELSE <<>>
                     IN  /\ DOMAIN new[name] = DOMAIN before \cup {i \in 0..2 : Giving(values, name, i) # {}}
                         /\ \A i \in DOMAIN new[name] :
                              new[name][i] = IF Giving(values, name, i) # {} THEN LastGiven(values, name, i) ELSE before[i]]_vars

\* A 'Dino' proxy after updates: index 0 of hp overridden, index 1 still the default,
\* and the field x created
C24_Witness ==
    \E k \in 1..Len(px.instances) :
        LET held == Resolve(px.heap, px.instances[k].fields)
        IN  /\ px.instances[k].uetype = "Dino"
            /\ fExtra \in DOMAIN held
            /\ held[fHp][0] = 99
            /\ held[fHp][1] = 11

\* C25: the defaults of a type stay as declared whatever proxies are created and
\* updated, and an update of one proxy leaves the fields of every other proxy as they
\* were
C25_DefaultsAndOthersUntouched ==
    [][/\ px'.proxies = px.proxies
       /\ \A uetype \in DOMAIN px'.proxies : Resolve(px'.heap, px'.proxies[uetype]) = DeclaredDefaults[uetype]
       /\ \A proxy \in 1..Len(px.instances), values \in Overrides : (Written /\ Update(proxy, values)) =>
            \A other \in (1..Len(px.instances)) \ {proxy} :
                /\ px'.instances[other] = px.instances[other]
                /\ Resolve(px'.heap, px'.instances[other].fields) = Resolve(px.heap, px.instances[other].fields)]_vars

\* Two proxies of the same type, one updated and the other still at the defaults
C25_Witness ==
    /\ Len(px.instances) = 2
    /\ px.instances[1].uetype = px.instances[2].uetype
    /\ Resolve(px.heap, px.instances[1].fields) = DeclaredDefaults[px.instances[1].uetype]
    /\ Resolve(px.heap, px.instances[2].fields) # DeclaredDefaults[px.instances[2].uetype]

(***************************************************************************)
(* The two cache managers side by side (checked under PolicySpec)          *)
(***************************************************************************)
\* The names of c that do not start with prefix, in c's order
Survivors(c, prefix) == SelectSeq(DictKeys(c), LAMBDA n : ~StartsWith(n, prefix))

\* What wipe(prefix) has to leave of the store c in the store d
WipedTo(c, d, prefix) ==
    IF prefix = <<>> THEN d = <<>>
    ELSE /\ Mapping(d) = {m \in Mapping(c) : ~StartsWith(m[1], prefix)}
         /\ DictKeys(d) = Survivors(c, prefix)

\* What add(name, asset) of a cached name has to leave of the store c in the store d
ReplacedTo(c, d, name, asset) ==
    DictHas(c, name) => get_count(d) = get_count(c) /\ DictGet(d, name) = asset /\ Mapping(Others(d, name)) = Mapping(Others(c, name))

\* C26: in both managers a wipe with a non-empty prefix removes exactly the entries
\* whose key starts with the prefix and leaves the others with their values and
\* their relative order, a wipe with an empty prefix leaves the cache empty, and an
\* add of a cached key replaces its value and does not increase the count.
C26_WipeAndReplace ==
    [][ /\ dc'.last.op = "wipe" =>
            WipedTo(cache, cache', dc'.last.name) /\ WipedTo(dc.cache, dc'.cache, dc'.last.name)
        /\ dc'.last.op = "add" =>
            ReplacedTo(cache, cache', dc'.last.name, dc'.last.asset) /\ ReplacedTo(dc.cache, dc'.cache, dc'.last.name, dc'.last.asset) ]_vars

\* Both managers have wiped the prefix of one mod and are left with the two other
\* names, each in its own order
C26_Witness ==
    /\ dc.last.op = "wipe" /\ dc.last.name = sl \o wGame \o sl \o wMods \o sl \o wAlpha
    /\ DictKeys(cache) = <<nModBetaBar, nGameFoo>>
    /\ DictKeys(dc.cache) = <<nGameFoo, nModBetaBar>>

\* C27: as long as the entry count has stayed below max_count, the two managers
\* have given the same return value and the same outcome to the last call and hold
\* the same name-to-container mapping.
C27_PoliciesInterchangeable ==
    ~dc.purged => dc.last.usage = dc.last.dict /\ Mapping(cache) = Mapping(dc.cache)

(***************************************************************************)
(* cache_data (checked under CfSpec)                                       *)
(***************************************************************************)
\* The hash file holds the hash of key
HashStored(file, key) == file.kind = "text" /\ Strip(file.text, Whitespace) = hash_from_object(key)

\* The data file holds pickled data
DataStored(file) == file.kind = "pickle"

\* The last call found cached data for its key and was not told to regenerate
Reusing(call) == ~call.force_regenerate /\ HashStored(call.hash_file, call.key) /\ DataStored(call.data_file)

ClassReturnStep == cls.stage = "load" /\ cls'.stage = "done" /\ last.err = ""

\* The indices of the exports of a container that bear the name member
Named(asset, member) ==
    {i \in 1..Len(ExportsOf(LeafName(asset.assetname))) : ExportsOf(LeafName(asset.assetname))[i].name = member}

\* What load_class has to give for member on the container asset
ClassGiven(result, asset, member, fallback) ==
    IF Named(asset, member) # {}
    THEN result.err = "" /\ result.export \in Named(asset, member) /\ \A i \in Named(asset, member) : result.export <= i
    ELSE IF fallback # NO_FALLBACK
    THEN result.err = "" /\ result.export = 0 /\ result.fallback = fallback
    ELSE result.err = "ExportNotFound"

\* C29: when load_class ends on a successfully parsed container it gives the first
\* export whose name equals the member asked for; when there is none it gives the
\* fallback if one was passed, None included, and raises ExportNotFound otherwise;
\* either way it leaves the cache as its load_asset left it, with the container
\* stored under its name (keep_count >= 1, so that the insert survives its own purge).
C29_LoadClassFindsOrFallsBack ==
    [][ClassReturnStep =>
          /\ ClassGiven(cls'.result, cls'.asset, cls.cls_name, cls.fallback)
          /\ cache' = cache
          /\ keep_count >= 1 => DictHas(cache', cls.assetname) /\ DictGet(cache', cls.assetname) = cls'.asset]_vars

\* load_class has raised ExportNotFound for a member that differs from an export only
\* in case, and the container is cached
C29_Witness ==
    /\ cls.stage = "done" /\ cls.result.err = "ExportNotFound" /\ cls.cls_name = wLowerFoo
    /\ DictHas(cache, nGameFoo) /\ DictGet(cache, nGameFoo) = cls.asset

(***************************************************************************)
(* Partial loads and the cache (checked under LoaderSpec)                  *)
(***************************************************************************)
\* A step in which a partially_load_asset called with cache_result ends with a container
PartialLoadCachedStep ==
    pc # "idle" /\ pc' = "idle" /\ cur.op = "partially_load_asset" /\ cur.cache_result /\ last'.err = ""

\* C30: a partial load requested with cache_result on stores the partial container
\* in the cache under its name, where a later lookup under the full context finds
\* it and takes it for a miss.
C30_PartialLoadIsCached ==
    [][PartialLoadCachedStep =>
          /\ DictGet(cache', cur.assetname) = last'.res
          /\ ContextAware_lookup_result(cache', cur.assetname, "full") = NoneAsset]_vars

(***************************************************************************)
(* Eviction of a mod after its export (checked under ExportSpec)           *)
(***************************************************************************)
\* The mod an asset name belongs to, as the loader tells it (get_mod_name); None for
\* an asset of the game
ModOf(assetname) == get_mod_name(assetname, mods).val

\* The mod perform has in hand or has just finished
ModInHand == ModOf(nGameMods \o ex.modid)

\* An asset name that lies under '/Game/Mods/<mod name>/'
UnderMod(assetname, modname) == StartsWith(assetname, nGameMods \o modname \o sl)

C32_OtherModsKept ==
    [][(ex.stage = "mod" /\ ex'.stage \in {"loop", "done"}) =>
          \A name \in KeySet(cache) : ModOf(name) # ModInHand =>
              DictHas(cache', name) /\ DictGet(cache', name) = DictGet(cache, name)]_vars

(***************************************************************************)
(* cache_data under failing writes (checked under CfIoSpec)                *)
(***************************************************************************)
\* C33: whatever calls of cache_data were made on the file name, and whichever of
\* their writes failed, the value a call returns for its key is a value the
\* generator produced for a key with the same hash.
C33_ReturnsDataOfItsKey ==
    cf.key # <<>> => <<hash_from_object(cf.key), cf.ret>> \in cf.made

\* C34: a lookup on a cache manager never changes which names are cached or the
\* container stored under each name: hit or miss, context miss included, and
\* whatever the truth value of the stored container, the name-to-container mapping
\* after the call equals the mapping before it.
C34_LookupKeepsMapping == [][LookupStep => Mapping(cache') = Mapping(cache)]_vars

\* C35: in a UsageBasedCacheManager with 1 <= keep_count < max_count the entry an add
\* inserts is never evicted by the purge that the same add triggers: right after
\* add(name, asset) returns, name is cached and lookup(name) returns asset.
C35_AddedEntrySurvivesPurge ==
    [][(AddStep /\ 1 <= keep_count /\ keep_count < max_count) =>
            /\ DictHas(cache', last'.name)
            /\ UsageBased_lookup_result(cache', last'.name) = last'.res
      ]_vars

C35_Witness == last.op = "add" /\ last.purged /\ 1 <= keep_count /\ keep_count < max_count /\ Truthy(last.res) /\ UsageBased_lookup_result(cache, last.name) = last.res

(***************************************************************************)
(* The transform records of the instanced-geometry blob (checked under     *)
(* GeomSpec)                                                               *)
(***************************************************************************)
\* num_instances as the parser read it, just before the first record
NumInstances(g) == ReadAt(g.stream, g.counted - 4, "u32")

\* The three floats at byte offset 48 of the record that starts at off
TranslationAt(stream, off) == <<ReadAt(stream, off + 48, "f32"), ReadAt(stream, off + 52, "f32"), ReadAt(stream, off + 56, "f32")>>

\* C36: each transform record advances the stream cursor by exactly 80 bytes, the
\* struct size the integrity test checks, and the translation kept for it is the three
\* floats at byte offset 48 of the record; after a successful parse the cursor stands
\* 80 * num_instances bytes past the instance count and visible_instances has exactly
\* num_instances entries, in record order.
C36_RecordsAreEightyBytes ==
    [][/\ (geo.stage = "instances" /\ geo'.stage = "instances") =>
            /\ geo'.offset = geo.offset + 80
            /\ geo'.offset = geo.offset + ExpectedStructSize
            /\ geo'.instances = Append(geo.instances, TranslationAt(geo.stream, geo.offset))
       /\ (geo.stage = "instances" /\ geo'.stage = "done") =>
            /\ geo'.offset = geo'.counted + 80 * NumInstances(geo')
            /\ Len(geo'.fields) = 1
            /\ geo'.fields[1].name = "visible_instances"
            /\ Len(geo'.fields[1].value) = NumInstances(geo')
            /\ geo'.fields[1].value = geo'.stream.instances
            /\ \A k \in 1..NumInstances(geo') : geo'.fields[1].value[k] = TranslationAt(geo'.stream, geo'.counted + 80 * (k - 1))
      ]_vars

\* A blob with two records of different translations has been parsed to the end
C36_Witness ==
    /\ geo.stage = "done"
    /\ NumInstances(geo) = 2
    /\ geo.fields[1].value = <<<<4, 5, 6>>, <<1, 2, 3>>>>
    /\ geo.offset = geo.counted + 160
    /\ geo.counted > 8

====
